---- MODULE Spec2Model ----
(***************************************************************************)
(* The note-selection query subsystem of notemancy-core: the tokenizer and *)
(* recursive-descent parser of the query DSL (src/query_parser.rs), the    *)
(* native evaluator (src/query_native.rs) and the compiled-filter backend  *)
(* (build_jq_expression in src/query_parser.rs, run by src/query.rs).      *)
(*                                                                         *)
(* Text is a sequence of one-character strings, so that scanning,          *)
(* formatting and re-parsing are computed character by character.          *)
(***************************************************************************)
EXTENDS Integers, Sequences, FiniteSets, TLC

VARIABLES
    query,      \* the query text handed to the entry point
    vault,      \* the markdown files of the vault (their frontmatter)
    calls,      \* the entry points still to be called, in order
    entry,      \* the entry point now running: "none", "native" or "shell"
    pc,         \* position inside the running entry point
    pos,        \* tokenize: index of the next unread character (chars.peek())
    tokens,     \* tokenize: the token vector built so far
    parsed,     \* the parser's result: [ok, expr, pos]
    jq_expr,    \* query_notes: the compiled filter text
    jqOut,      \* query_notes: the "notes" array printed by the pipeline
    loaded,     \* query_notes_native: the records load_notes returned
    nativeRes,  \* what query_notes_native returned
    shellRes,   \* what query_notes returned
    work,       \* parallel filter: per record "pending", "taken", "kept", "dropped"
    workers,    \* parallel filter: per worker thread the record it holds, or 0
    stages,     \* the child processes of the running pipeline, first stage first
    tagsRes,    \* what get_all_tags returned
    board_file, \* kanban: the lines of the board's .tkf file, or NoFile
    workspace_file, \* workspaces: the lines of the workspace's .txt file, or NoFile
    last        \* kanban and workspaces: the last call, what it returned, and
                \* the file as it was before the call

\* the parts of the state that only the stepwise descriptions of the parallel
\* filter and of the pipelines use
parVars  == <<work, workers>>
pipeVars == <<stages, tagsRes>>

storeVars == <<board_file, workspace_file, last>>
vars == <<query, vault, calls, entry, pc, pos, tokens, parsed, jq_expr,
          jqOut, loaded, nativeRes, shellRes, parVars, pipeVars, storeVars>>

\* a file that does not exist, and the state before any call on a file
NoFile == [exists |-> FALSE, lines |-> <<>>]
NoCall == [op |-> "none"]

-----------------------------------------------------------------------------
(* Characters *)

LowerLetters == {"a","b","c","d","e","f","g","h","i","j","k","l","m",
                 "n","o","p","q","r","s","t","u","v","w","x","y","z"}
UpperLetters == {"A","B","C","D","E","F","G","H","I","J","K","L","M",
                 "N","O","P","Q","R","S","T","U","V","W","X","Y","Z"}
Digits == {"0","1","2","3","4","5","6","7","8","9"}

\* The characters of the model in code point order (Rust compares strings
\* bytewise, the filter tool by code point: the same order on ASCII).
AsciiOrder ==
    <<" ", "!", "\"", "'", "(", ")", "-", ".",
      "0","1","2","3","4","5","6","7","8","9",
      "<", "=", ">", "@",
      "A","B","C","D","E","F","G","H","I","J","K","L","M",
      "N","O","P","Q","R","S","T","U","V","W","X","Y","Z",
      "\\", "_",
      "a","b","c","d","e","f","g","h","i","j","k","l","m",
      "n","o","p","q","r","s","t","u","v","w","x","y","z",
      "{", "|", "}">>

CharCode(c) == CHOOSE i \in 1..Len(AsciiOrder) : AsciiOrder[i] = c

is_whitespace(c) == c = " "
is_alphanumeric(c) == c \in LowerLetters \cup UpperLetters \cup Digits
is_operator_char(c) == c \in {"=", "!", ">", "<"}

LowerOf ==
    [c \in UpperLetters |->
        AsciiOrder[CharCode(c) - CharCode("A") + CharCode("a")]]

to_lowercase(s) ==
    [i \in 1..Len(s) |-> IF s[i] \in UpperLetters THEN LowerOf[s[i]] ELSE s[i]]

\* s < t in lexicographic order of code points (String's Ord)
RECURSIVE StrLess(_, _)
StrLess(s, t) ==
    IF t = <<>> THEN FALSE
    ELSE IF s = <<>> THEN TRUE
    ELSE IF s[1] # t[1] THEN CharCode(s[1]) < CharCode(t[1])
    ELSE StrLess(Tail(s), Tail(t))

StrLessEq(s, t) == s = t \/ StrLess(s, t)

-----------------------------------------------------------------------------
(* Tokens (enum Token) *)

Tok(type, text) == [type |-> type, text |-> text]
Identifier(s)    == Tok("Identifier", s)
Operator(s)      == Tok("Operator", s)
StringLiteral(s) == Tok("StringLiteral", s)
TAnd    == Tok("And", <<>>)
TOr     == Tok("Or", <<>>)
TNot    == Tok("Not", <<>>)
LParen  == Tok("LParen", <<>>)
RParen  == Tok("RParen", <<>>)

-----------------------------------------------------------------------------
(* tokenize: one iteration of the scan loop *)

\* the first index q >= p at which the string-literal scan stops: the closing
\* quote, or one past the end of the input
RECURSIVE LiteralEnd(_, _)
LiteralEnd(input, p) ==
    IF p > Len(input) THEN p
    ELSE IF input[p] = "\"" THEN p
    ELSE LiteralEnd(input, p + 1)

\* the first index q >= p at which the identifier run stops
RECURSIVE IdentEnd(_, _)
IdentEnd(input, p) ==
    IF p > Len(input) THEN p
    ELSE IF is_alphanumeric(input[p]) \/ input[p] = "_" \/ input[p] = "-"
         THEN IdentEnd(input, p + 1)
    ELSE p

KeywordOrIdentifier(ident) ==
    LET low == to_lowercase(ident) IN
    IF low = <<"a","n","d">> THEN TAnd
    ELSE IF low = <<"o","r">> THEN TOr
    ELSE IF low = <<"n","o","t">> THEN TNot
    ELSE Identifier(ident)

\* The body of `while let Some(&c) = chars.peek()`: from the cursor p and the
\* token vector toks to the cursor and the vector after one iteration.
ScanStep(input, p, toks) ==
    LET c == input[p] IN
    IF is_whitespace(c) THEN [pos |-> p + 1, tokens |-> toks]
    ELSE IF c = "(" THEN [pos |-> p + 1, tokens |-> Append(toks, LParen)]
    ELSE IF c = ")" THEN [pos |-> p + 1, tokens |-> Append(toks, RParen)]
    ELSE IF c = "\"" THEN
        LET q == LiteralEnd(input, p + 1) IN
        [pos |-> IF q <= Len(input) THEN q + 1 ELSE q,
         tokens |-> Append(toks, StringLiteral(SubSeq(input, p + 1, q - 1)))]
    ELSE IF is_operator_char(c) THEN
        IF p + 1 <= Len(input) /\ is_operator_char(input[p + 1])
        THEN [pos |-> p + 2,
              tokens |-> Append(toks, Operator(<<c, input[p + 1]>>))]
        ELSE [pos |-> p + 1, tokens |-> Append(toks, Operator(<<c>>))]
    ELSE
        LET q == IdentEnd(input, p) IN
        [pos |-> q,
         tokens |-> Append(toks, KeywordOrIdentifier(SubSeq(input, p, q - 1)))]

-----------------------------------------------------------------------------
(* Expr and the recursive-descent parser *)

Condition(field, op, value) ==
    [type |-> "Condition", field |-> field, op |-> op, value |-> value]
And(lhs, rhs) == [type |-> "And", lhs |-> lhs, rhs |-> rhs]
Or(lhs, rhs)  == [type |-> "Or", lhs |-> lhs, rhs |-> rhs]
Not(inner)    == [type |-> "Not", inner |-> inner]

NoExpr == [type |-> "none"]

\* Result<Expr> together with the iterator position the call leaves behind
POk(expr, p)  == [ok |-> TRUE, expr |-> expr, pos |-> p, err |-> ""]
PErr(msg, p)  == [ok |-> FALSE, expr |-> NoExpr, pos |-> p, err |-> msg]

\* self.tokens.peek(): the type of the token at p, "None" past the end
PeekType(toks, p) == IF p <= Len(toks) THEN toks[p].type ELSE "None"

parse_condition(toks, p) ==
    IF PeekType(toks, p) # "Identifier"
    THEN PErr("Expected field name", p + 1)
    ELSE IF PeekType(toks, p + 1) # "Operator"
    THEN PErr("Expected operator", p + 2)
    ELSE IF PeekType(toks, p + 2) \notin {"Identifier", "StringLiteral"}
    THEN PErr("Expected value", p + 3)
    ELSE POk(Condition(toks[p].text, toks[p + 1].text, toks[p + 2].text),
             p + 3)

RECURSIVE parse_or(_, _), parse_or_loop(_, _, _), parse_and(_, _),
          parse_and_loop(_, _, _), parse_unary(_, _), parse_primary(_, _)

parse_expression(toks, p) == parse_or(toks, p)

\* the `while let Some(Token::Or)` loop of parse_or, expr being the tree so far
parse_or_loop(toks, p, expr) ==
    IF PeekType(toks, p) = "Or" THEN
        LET rhs == parse_and(toks, p + 1) IN
        IF rhs.ok THEN parse_or_loop(toks, rhs.pos, Or(expr, rhs.expr))
        ELSE rhs
    ELSE POk(expr, p)

parse_or(toks, p) ==
    LET first == parse_and(toks, p) IN
    IF first.ok THEN parse_or_loop(toks, first.pos, first.expr) ELSE first

\* the `while let Some(Token::And)` loop of parse_and
parse_and_loop(toks, p, expr) ==
    IF PeekType(toks, p) = "And" THEN
        LET rhs == parse_unary(toks, p + 1) IN
        IF rhs.ok THEN parse_and_loop(toks, rhs.pos, And(expr, rhs.expr))
        ELSE rhs
    ELSE POk(expr, p)

parse_and(toks, p) ==
    LET first == parse_unary(toks, p) IN
    IF first.ok THEN parse_and_loop(toks, first.pos, first.expr) ELSE first

\* parse_unary with the operand of `not` read one level too low in the grammar
parse_unary_wide(toks, p) ==
    IF PeekType(toks, p) = "Not" THEN
        LET inner == parse_and(toks, p + 1) IN
        IF inner.ok THEN POk(Not(inner.expr), inner.pos) ELSE inner
    ELSE parse_primary(toks, p)

parse_unary(toks, p) ==
    IF PeekType(toks, p) = "Not" THEN
        LET inner == parse_unary(toks, p + 1) IN
        IF inner.ok THEN POk(Not(inner.expr), inner.pos) ELSE inner
    ELSE parse_primary(toks, p)

parse_primary(toks, p) ==
    IF PeekType(toks, p) = "LParen" THEN
        LET inner == parse_expression(toks, p + 1) IN
        IF ~inner.ok THEN inner
        ELSE IF PeekType(toks, inner.pos) = "RParen"
        THEN POk(inner.expr, inner.pos + 1)
        ELSE PErr("Expected closing parenthesis", inner.pos + 1)
    ELSE parse_condition(toks, p)

-----------------------------------------------------------------------------
(* The vault, load_notes and the native evaluator *)

S_tag   == <<"t","a","g">>
S_date  == <<"d","a","t","e">>
S_title == <<"t","i","t","l","e">>

\* A markdown file of the vault: its vault-relative path, its file stem and
\* the title, date and tags entries of its YAML frontmatter mapping.
NoteFile(path, stem, hasTitle, title, hasDate, date, tags) ==
    [path |-> path, stem |-> stem, hasTitle |-> hasTitle, title |-> title,
     hasDate |-> hasDate, date |-> date, tags |-> tags, state |-> "ok"]

\* What the directory walk and the file system do with a file:
\*   "ok"             it is listed, read, and its frontmatter is a YAML mapping
\*   "no_frontmatter" it is read and has no frontmatter block
\*   "unreadable"     it is listed and reading it fails
\*   "bad_yaml"       it is read and its frontmatter is not valid YAML
\*   "walk_error"     the walk yields an error in its place (it lies in a
\*                    directory that cannot be listed)
FileStates == {"ok", "no_frontmatter", "unreadable", "bad_yaml", "walk_error"}

InState(f, st) == [f EXCEPT !.state = st]

\* struct NoteMetadata as load_notes fills it for one file: the title falls
\* back to the file stem, the date is an Option
NoteMetadata(f) ==
    [path |-> f.path,
     title |-> IF f.hasTitle THEN f.title ELSE f.stem,
     hasDate |-> f.hasDate,
     date |-> f.date,
     tags |-> f.tags]

\* Result<Vec<NoteMetadata>>
LOk(notes) == [ok |-> TRUE, notes |-> notes, err |-> ""]
LErr(msg)  == [ok |-> FALSE, notes |-> <<>>, err |-> msg]

\* The loop over WalkDir::new(..).into_iter().filter_map(|e| e.ok()): an error
\* entry of the walk is dropped, a failed read or YAML parse returns by `?`,
\* a file without a frontmatter mapping is passed over.
RECURSIVE load_notes(_)
load_notes(files) ==
    IF files = <<>> THEN LOk(<<>>)
    ELSE LET f == Head(files) IN
         IF f.state = "walk_error" THEN load_notes(Tail(files))
         ELSE IF f.state = "unreadable" THEN LErr("Failed to read file")
         ELSE IF f.state = "bad_yaml" THEN LErr("Failed to parse YAML in file")
         ELSE LET rest == load_notes(Tail(files)) IN
              IF ~rest.ok THEN rest
              ELSE IF f.state = "no_frontmatter" THEN rest
              ELSE LOk(<<NoteMetadata(f)>> \o rest.notes)

\* the "tag" arm of evaluate_expr: note.tags.iter().any(|t| t == value)
evaluate_tag_first(note, op, value) ==
    IF op = <<"=">> THEN note.tags # <<>> /\ note.tags[1] = value
    ELSE IF op = <<"!", "=">> THEN ~(note.tags # <<>> /\ note.tags[1] = value)
    ELSE FALSE

evaluate_tag(note, op, value) ==
    IF op = <<"=">> THEN \E i \in 1..Len(note.tags) : note.tags[i] = value
    ELSE IF op = <<"!", "=">>
    THEN ~(\E i \in 1..Len(note.tags) : note.tags[i] = value)
    ELSE FALSE

\* the "date" arm: Option<String> against the value, by String's ordering
evaluate_date_exclusive(note, op, value) ==
    IF note.hasDate THEN
        IF op = <<"=">> THEN note.date = value
        ELSE IF op = <<"!", "=">> THEN note.date # value
        ELSE IF op = <<">", "=">> THEN StrLess(value, note.date)
        ELSE IF op = <<"<", "=">> THEN StrLess(note.date, value)
        ELSE IF op = <<">">> THEN StrLess(value, note.date)
        ELSE IF op = <<"<">> THEN StrLess(note.date, value)
        ELSE FALSE
    ELSE FALSE

evaluate_date(note, op, value) ==
    IF note.hasDate THEN
        IF op = <<"=">> THEN note.date = value
        ELSE IF op = <<"!", "=">> THEN note.date # value
        ELSE IF op = <<">", "=">> THEN StrLessEq(value, note.date)
        ELSE IF op = <<"<", "=">> THEN StrLessEq(note.date, value)
        ELSE IF op = <<">">> THEN StrLess(value, note.date)
        ELSE IF op = <<"<">> THEN StrLess(note.date, value)
        ELSE FALSE
    ELSE FALSE

\* the "title" arm
evaluate_title_ordered(note, op, value) ==
    IF op = <<"=">> THEN note.title = value
    ELSE IF op = <<"!", "=">> THEN note.title # value
    ELSE IF op = <<"<">> THEN StrLess(note.title, value)
    ELSE IF op = <<">">> THEN StrLess(value, note.title)
    ELSE FALSE

evaluate_title(note, op, value) ==
    IF op = <<"=">> THEN note.title = value
    ELSE IF op = <<"!", "=">> THEN note.title # value
    ELSE FALSE

RECURSIVE evaluate_expr(_, _)
evaluate_expr(note, expr) ==
    IF expr.type = "Condition" THEN
        LET field == to_lowercase(expr.field) IN
        IF field = S_tag THEN evaluate_tag(note, expr.op, expr.value)
        ELSE IF field = S_date THEN evaluate_date(note, expr.op, expr.value)
        ELSE IF field = S_title THEN evaluate_title(note, expr.op, expr.value)
        ELSE FALSE
    ELSE IF expr.type = "And"
    THEN evaluate_expr(note, expr.lhs) /\ evaluate_expr(note, expr.rhs)
    ELSE IF expr.type = "Or"
    THEN evaluate_expr(note, expr.lhs) \/ evaluate_expr(note, expr.rhs)
    ELSE ~evaluate_expr(note, expr.inner)

\* notes.into_par_iter().filter(..).map(|note| (note.path, note.title)).collect()
\* (collect keeps the order of the indexed parallel iterator)
RECURSIVE NativeFilter(_, _)
NativeFilter(notes, ast) ==
    IF notes = <<>> THEN <<>>
    ELSE IF evaluate_expr(Head(notes), ast)
    THEN <<<<Head(notes).path, Head(notes).title>>>> \o NativeFilter(Tail(notes), ast)
    ELSE NativeFilter(Tail(notes), ast)

-----------------------------------------------------------------------------
(* build_jq_expression: the AST to the text of a filter *)

JqTagsIndexOpen == <<"(",".","t","a","g","s"," ","|"," ","i","n","d","e","x","(","\"">>
JqNeNullClose   == <<"\"",")"," ","!","="," ","n","u","l","l",")">>
JqEqNullClose_assign == <<"\"",")"," ","="," ","n","u","l","l",")">>
JqEqNullClose   == <<"\"",")"," ","=","="," ","n","u","l","l",")">>
JqAndSep        == <<" ","a","n","d"," ">>
JqOrSep_and     == <<" ","a","n","d"," ">>

JqOrSep         == <<" ","o","r"," ">>
JqNotClose      == <<" ","|"," ","n","o","t",")">>

\* format!(".{} {} \"{}\"", field, op, value)
FieldComparison(field, op, value) ==
    <<".">> \o field \o <<" ">> \o op \o <<" ", "\"">> \o value \o <<"\"">>

RECURSIVE build_jq_expression(_)
build_jq_expression(expr) ==
    IF expr.type = "Condition" THEN
        IF to_lowercase(expr.field) = S_tag THEN
            IF expr.op = <<"=">>
            THEN JqTagsIndexOpen \o expr.value \o JqNeNullClose
            ELSE IF expr.op = <<"!", "=">>
            THEN JqTagsIndexOpen \o expr.value \o JqEqNullClose
            ELSE FieldComparison(expr.field, expr.op, expr.value)
        ELSE FieldComparison(expr.field, expr.op, expr.value)
    ELSE IF expr.type = "And" THEN
        <<"(">> \o build_jq_expression(expr.lhs) \o JqAndSep
                \o build_jq_expression(expr.rhs) \o <<")">>
    ELSE IF expr.type = "Or" THEN
        <<"(">> \o build_jq_expression(expr.lhs) \o JqOrSep
                \o build_jq_expression(expr.rhs) \o <<")">>
    ELSE
        IF /\ expr.inner.type = "Condition"
           /\ to_lowercase(expr.inner.field) = S_tag
           /\ expr.inner.op = <<"=">>
        THEN JqTagsIndexOpen \o expr.inner.value \o JqEqNullClose
        ELSE <<"(">> \o build_jq_expression(expr.inner) \o JqNotClose

-----------------------------------------------------------------------------
(* The filter tool (jq) on the compiled text: its lexer *)

S_tags == <<"t","a","g","s">>
S_path == <<"p","a","t","h">>

JTok(k, s) == [k |-> k, s |-> s]

IsJqIdentStart(c) == c \in LowerLetters \cup UpperLetters \cup {"_"}
IsJqIdentChar(c)  == IsJqIdentStart(c) \/ c \in Digits

\* the end (exclusive) of the run of characters satisfying the identifier class
RECURSIVE JqIdentEnd(_, _)
JqIdentEnd(text, p) ==
    IF p <= Len(text) /\ IsJqIdentChar(text[p]) THEN JqIdentEnd(text, p + 1)
    ELSE p

RECURSIVE JqDigitsEnd(_, _)
JqDigitsEnd(text, p) ==
    IF p <= Len(text) /\ text[p] \in Digits THEN JqDigitsEnd(text, p + 1)
    ELSE p

\* A string literal's body starting at p (after the opening quote): the decoded
\* text and the index after the closing quote, or ok = FALSE when an escape is
\* invalid or the literal is not closed.  Of the escapes only \" \\ \/ \n \t \r
\* \f are decoded; \b, \uXXXX and the interpolation \( are outside the model.
RECURSIVE JqStringBody(_, _, _)
JqStringBody(text, p, acc) ==
    IF p > Len(text) THEN [ok |-> FALSE, s |-> acc, pos |-> p]
    ELSE IF text[p] = "\"" THEN [ok |-> TRUE, s |-> acc, pos |-> p + 1]
    ELSE IF text[p] = "\\" THEN
        IF p + 1 > Len(text) THEN [ok |-> FALSE, s |-> acc, pos |-> p]
        ELSE IF text[p + 1] \in {"\"", "\\", "/"}
        THEN JqStringBody(text, p + 2, Append(acc, text[p + 1]))
        ELSE IF text[p + 1] = "n" THEN JqStringBody(text, p + 2, Append(acc, "\n"))
        ELSE IF text[p + 1] = "t" THEN JqStringBody(text, p + 2, Append(acc, "\t"))
        ELSE IF text[p + 1] = "r" THEN JqStringBody(text, p + 2, Append(acc, "\r"))
        ELSE IF text[p + 1] = "f" THEN JqStringBody(text, p + 2, Append(acc, "\f"))
        ELSE [ok |-> FALSE, s |-> acc, pos |-> p]
    ELSE JqStringBody(text, p + 1, Append(acc, text[p]))

RECURSIVE JqSkipSpaces(_, _)
JqSkipSpaces(text, p) ==
    IF p <= Len(text) /\ text[p] = " " THEN JqSkipSpaces(text, p + 1) ELSE p

\* The token that starts at p (no space) and the index after it.  A character
\* sequence that is no token ("!" not followed by "=", a bad string literal,
\* a character outside the language) gives the token INVALID, which no rule
\* of the grammar accepts.
JqToken(text, p) ==
    LET c == text[p]
        d == IF p + 1 <= Len(text) THEN text[p + 1] ELSE ""
        One(k) == [tok |-> JTok(k, <<>>), pos |-> p + 1]
        Invalid == [tok |-> JTok("INVALID", <<>>), pos |-> Len(text) + 1]
    IN
    CASE c = "(" -> One("LP")
      [] c = ")" -> One("RP")
      [] c = "|" -> One("PIPE")
      [] c = "-" -> One("MINUS")
      [] c = "." ->
            IF d # "" /\ IsJqIdentStart(d) THEN
                LET q == JqIdentEnd(text, p + 1) IN
                [tok |-> JTok("FIELD", SubSeq(text, p + 1, q - 1)), pos |-> q]
            ELSE IF d \in Digits THEN
                LET q == JqDigitsEnd(text, p + 1) IN
                [tok |-> JTok("NUM", SubSeq(text, p, q - 1)), pos |-> q]
            ELSE One("DOT")
      [] c \in Digits ->
            LET q == JqDigitsEnd(text, p)
                r == IF q <= Len(text) /\ text[q] = "."
                     THEN JqDigitsEnd(text, q + 1) ELSE q IN
            [tok |-> JTok("NUM", SubSeq(text, p, r - 1)), pos |-> r]
      [] c = "\"" ->
            LET b == JqStringBody(text, p + 1, <<>>) IN
            IF b.ok THEN [tok |-> JTok("STR", b.s), pos |-> b.pos] ELSE Invalid
      [] c \in {"=", "!", "<", ">"} ->
            IF d = "=" THEN [tok |-> JTok("OP", <<c, d>>), pos |-> p + 2]
            ELSE IF c = "!" THEN Invalid
            ELSE [tok |-> JTok("OP", <<c>>), pos |-> p + 1]
      [] IsJqIdentStart(c) ->
            LET q == JqIdentEnd(text, p)
                w == SubSeq(text, p, q - 1) IN
            [tok |-> IF w = <<"a","n","d">> THEN JTok("AND", <<>>)
                     ELSE IF w = <<"o","r">> THEN JTok("OR", <<>>)
                     ELSE JTok("IDENT", w),
             pos |-> q]
      [] OTHER -> Invalid

\* the token sequence of the filter text from p on
RECURSIVE JqLex(_, _)
JqLex(text, p) ==
    LET q == JqSkipSpaces(text, p) IN
    IF q > Len(text) THEN <<>>
    ELSE <<JqToken(text, q).tok>> \o JqLex(text, JqToken(text, q).pos)

-----------------------------------------------------------------------------
(* The filter tool: its expression grammar, by operator precedence.        *)
(* From weakest to strongest: "|" (right), "=" (non-associative), "or",    *)
(* "and" (left), the comparisons (non-associative), "-" (left).            *)

\* the precedence of the binary operator at p, 0 when there is none
JqPrec(toks, p) ==
    IF p > Len(toks) THEN 0
    ELSE IF toks[p].k = "PIPE" THEN 1
    ELSE IF toks[p].k = "OP" THEN (IF toks[p].s = <<"=">> THEN 4 ELSE 7)
    ELSE IF toks[p].k = "OR" THEN 5
    ELSE IF toks[p].k = "AND" THEN 6
    ELSE IF toks[p].k = "MINUS" THEN 8
    ELSE 0

JqNonAssoc(prec) == prec \in {4, 7}

JqOpName(tok) == IF tok.k = "OP" THEN tok.s ELSE <<tok.k>>

JOk(ast, p)  == [ok |-> TRUE, ast |-> ast, pos |-> p, err |-> ""]
JErr(msg, p) == [ok |-> FALSE, ast |-> [t |-> "none"], pos |-> p, err |-> msg]

JqKind(toks, p) == IF p <= Len(toks) THEN toks[p].k ELSE "EOF"

RECURSIVE JqParseExp(_, _, _), JqBinLoop(_, _, _, _, _), JqParseTerm(_, _)

\* Term: "." | FIELD | STRING | NUMBER | "(" Exp ")" | IDENT | IDENT "(" Exp ")"
\* The functions known to the tool that the compiled text can name are
\* index/1, not/0 and the constants null, true, false; any other name is
\* "not defined", a compile error.
JqParseTerm(toks, p) ==
    LET k == JqKind(toks, p) IN
    IF k = "DOT" THEN JOk([t |-> "identity"], p + 1)
    ELSE IF k = "FIELD" THEN JOk([t |-> "field", s |-> toks[p].s], p + 1)
    ELSE IF k = "STR" THEN JOk([t |-> "str", s |-> toks[p].s], p + 1)
    ELSE IF k = "NUM" THEN JOk([t |-> "num", s |-> toks[p].s], p + 1)
    ELSE IF k = "LP" THEN
        LET e == JqParseExp(toks, p + 1, 1) IN
        IF ~e.ok THEN e
        ELSE IF JqKind(toks, e.pos) = "RP" THEN JOk(e.ast, e.pos + 1)
        ELSE JErr("syntax error", e.pos)
    ELSE IF k = "IDENT" THEN
        IF JqKind(toks, p + 1) = "LP" THEN
            LET e == JqParseExp(toks, p + 2, 1) IN
            IF ~e.ok THEN e
            ELSE IF JqKind(toks, e.pos) # "RP" THEN JErr("syntax error", e.pos)
            ELSE IF toks[p].s = <<"i","n","d","e","x">>
            THEN JOk([t |-> "index", arg |-> e.ast], e.pos + 1)
            ELSE JErr("not defined", p)
        ELSE IF toks[p].s = <<"n","o","t">> THEN JOk([t |-> "not"], p + 1)
        ELSE IF toks[p].s = <<"n","u","l","l">> THEN JOk([t |-> "null"], p + 1)
        ELSE IF toks[p].s = <<"t","r","u","e">> THEN JOk([t |-> "true"], p + 1)
        ELSE IF toks[p].s = <<"f","a","l","s","e">> THEN JOk([t |-> "false"], p + 1)
        ELSE JErr("not defined", p)
    ELSE JErr("syntax error", p)

\* lhs has been read up to p; lastNA is the precedence of the non-associative
\* operator that built lhs (0 when there is none): a second operator of that
\* level is a syntax error.
JqBinLoop(toks, p, lhs, minPrec, lastNA) ==
    LET prec == JqPrec(toks, p) IN
    IF prec = 0 \/ prec < minPrec THEN JOk(lhs, p)
    ELSE IF prec = lastNA THEN JErr("syntax error", p)
    ELSE LET rhs == JqParseExp(toks, p + 1,
                               IF prec = 1 THEN prec ELSE prec + 1) IN
         IF ~rhs.ok THEN rhs
         ELSE JqBinLoop(toks, rhs.pos,
                        [t |-> "bin", op |-> JqOpName(toks[p]),
                         l |-> lhs, r |-> rhs.ast],
                        minPrec,
                        IF JqNonAssoc(prec) THEN prec ELSE 0)

JqParseExp(toks, p, minPrec) ==
    LET t == JqParseTerm(toks, p) IN
    IF t.ok THEN JqBinLoop(toks, t.pos, t.ast, minPrec, 0) ELSE t

\* The tool's compilation of the expression placed in select(...): the text
\* must lex, parse as one expression and leave no token over.
JqCompile(text) ==
    LET toks == JqLex(text, 1)
        e == JqParseExp(toks, 1, 1) IN
    IF ~e.ok THEN e
    ELSE IF e.pos <= Len(toks) THEN JErr("syntax error", e.pos)
    ELSE e

-----------------------------------------------------------------------------
(* The filter tool: JSON values and the evaluation of an expression *)

JV(k, b, n, s, a, o) == [k |-> k, b |-> b, n |-> n, s |-> s, a |-> a, o |-> o]
JNull    == JV("null", FALSE, 0, <<>>, <<>>, <<>>)
JBool(b) == JV("boolean", b, 0, <<>>, <<>>, <<>>)
JNum(n)  == JV("number", FALSE, n, <<>>, <<>>, <<>>)
JStr(s)  == JV("string", FALSE, 0, s, <<>>, <<>>)
JArr(a)  == JV("array", FALSE, 0, <<>>, a, <<>>)   \* an array of strings
JObj(o)  == JV("object", FALSE, 0, <<>>, <<>>, o)  \* o: key -> value

\* The record the pipeline hands to the filter for one file: the frontmatter
\* converted to JSON, plus the path
NoteJson(f) ==
    JObj([key \in {S_path, S_tags}
                    \cup (IF f.hasTitle THEN {S_title} ELSE {})
                    \cup (IF f.hasDate THEN {S_date} ELSE {}) |->
            IF key = S_path THEN JStr(f.path)
            ELSE IF key = S_tags THEN JArr(f.tags)
            ELSE IF key = S_title THEN JStr(f.title)
            ELSE JStr(f.date)])

JqTruthy(v) == ~(v.k = "null" \/ (v.k = "boolean" /\ ~v.b))

\* the tool's total order of values: null < false < true < numbers < strings
\* < arrays < objects; strings by code point
JqRank(v) ==
    IF v.k = "null" THEN 0
    ELSE IF v.k = "boolean" THEN (IF v.b THEN 2 ELSE 1)
    ELSE IF v.k = "number" THEN 3
    ELSE IF v.k = "string" THEN 4
    ELSE IF v.k = "array" THEN 5
    ELSE 6

JqEqual(v, w) ==
    /\ JqRank(v) = JqRank(w)
    /\ v.k = "number" => v.n = w.n
    /\ v.k = "string" => v.s = w.s
    /\ v.k = "array" => v.a = w.a
    /\ v.k = "object" => v.o = w.o

JqLess(v, w) ==
    IF JqRank(v) # JqRank(w) THEN JqRank(v) < JqRank(w)
    ELSE IF v.k = "string" THEN StrLess(v.s, w.s)
    ELSE IF v.k = "number" THEN v.n < w.n
    ELSE FALSE

JqCompare(op, v, w) ==
    IF op = <<"=", "=">> THEN JqEqual(v, w)
    ELSE IF op = <<"!", "=">> THEN ~JqEqual(v, w)
    ELSE IF op = <<"<">> THEN JqLess(v, w)
    ELSE IF op = <<"<", "=">> THEN JqLess(v, w) \/ JqEqual(v, w)
    ELSE IF op = <<">">> THEN JqLess(w, v)
    ELSE JqLess(w, v) \/ JqEqual(v, w)

JVal(v) == [err |-> FALSE, v |-> v]
JFail   == [err |-> TRUE, v |-> JNull]

\* whether setpath can follow the expression: "." and field accesses, piped
RECURSIVE JqIsPath(_)
JqIsPath(ast) ==
    \/ ast.t \in {"identity", "field"}
    \/ ast.t = "bin" /\ ast.op = <<"PIPE">> /\ JqIsPath(ast.l) /\ JqIsPath(ast.r)

\* the first index (from 0) of s in the array a, null when there is none
JqIndex(a, s) ==
    IF \E i \in 1..Len(a) : a[i] = s
    THEN JNum((CHOOSE i \in 1..Len(a) :
                  a[i] = s /\ \A j \in 1..(i - 1) : a[j] # s) - 1)
    ELSE JNull

\* The one output of the expression on the input, or an error.  (Every
\* expression the compiler can emit yields exactly one output or an error.)
RECURSIVE JqEval(_, _)
JqEval(ast, input) ==
    IF ast.t = "identity" THEN JVal(input)
    ELSE IF ast.t = "field" THEN
        IF input.k = "object"
        THEN JVal(IF ast.s \in DOMAIN input.o THEN input.o[ast.s] ELSE JNull)
        ELSE IF input.k = "null" THEN JVal(JNull)
        ELSE JFail
    ELSE IF ast.t = "str" THEN JVal(JStr(ast.s))
    ELSE IF ast.t = "num" THEN JVal(JNum(0))
    ELSE IF ast.t = "null" THEN JVal(JNull)
    ELSE IF ast.t = "true" THEN JVal(JBool(TRUE))
    ELSE IF ast.t = "false" THEN JVal(JBool(FALSE))
    ELSE IF ast.t = "not" THEN JVal(JBool(~JqTruthy(input)))
    ELSE IF ast.t = "index" THEN
        LET arg == JqEval(ast.arg, input) IN
        IF arg.err THEN JFail
        ELSE IF input.k = "array" /\ arg.v.k = "string"
        THEN JVal(JqIndex(input.a, arg.v.s))
        ELSE JFail
    ELSE \* ast.t = "bin"
    IF ast.op = <<"PIPE">> THEN
        LET l == JqEval(ast.l, input) IN
        IF l.err THEN JFail ELSE JqEval(ast.r, l.v)
    ELSE IF ast.op = <<"AND">> THEN
        LET l == JqEval(ast.l, input) IN
        IF l.err THEN JFail
        ELSE IF ~JqTruthy(l.v) THEN JVal(JBool(FALSE))
        ELSE LET r == JqEval(ast.r, input) IN
             IF r.err THEN JFail ELSE JVal(JBool(JqTruthy(r.v)))
    ELSE IF ast.op = <<"OR">> THEN
        LET l == JqEval(ast.l, input) IN
        IF l.err THEN JFail
        ELSE IF JqTruthy(l.v) THEN JVal(JBool(TRUE))
        ELSE LET r == JqEval(ast.r, input) IN
             IF r.err THEN JFail ELSE JVal(JBool(JqTruthy(r.v)))
    ELSE IF ast.op = <<"=">> THEN
        \* assignment: the input with the path on the left set to the value
        \* of the right; an error when the left is no path expression
        LET r == JqEval(ast.r, input) IN
        IF r.err THEN JFail
        ELSE IF ~JqIsPath(ast.l) THEN JFail
        ELSE IF ast.l.t = "identity" THEN r
        ELSE IF ast.l.t = "field" /\ input.k = "object" THEN
            JVal(JObj([key \in DOMAIN input.o \cup {ast.l.s} |->
                          IF key = ast.l.s THEN r.v ELSE input.o[key]]))
        ELSE JFail
    ELSE IF ast.op = <<"MINUS">> THEN JFail
    ELSE
        LET l == JqEval(ast.l, input)
            r == JqEval(ast.r, input) IN
        IF l.err \/ r.err THEN JFail
        ELSE JVal(JBool(JqCompare(ast.op, l.v, r.v)))

-----------------------------------------------------------------------------
(* query_notes: the pipeline around the filter *)

\* `jq -s '{notes: map(select(<text>)) | map({path: .path, title: .title})}'`
\* over the records of the files: the tool fails as a whole when the text does
\* not compile or the evaluation of any record raises an error; otherwise it
\* prints, in order, path and title of the records for which the expression
\* is neither false nor null.
RECURSIVE JqSelect(_, _)
JqSelect(files, ast) ==
    IF files = <<>> THEN <<>>
    ELSE IF JqTruthy(JqEval(ast, NoteJson(Head(files))).v)
    THEN <<[path |-> Head(files).path, hasTitle |-> Head(files).hasTitle,
            title |-> Head(files).title]>> \o JqSelect(Tail(files), ast)
    ELSE JqSelect(Tail(files), ast)

\* the files whose frontmatter the loop hands on as a JSON record: fd lists
\* the file, sed prints a frontmatter block and yq converts it
RECURSIVE FrontMatterRecords(_)
FrontMatterRecords(fs) ==
    IF fs = <<>> THEN <<>>
    ELSE IF Head(fs).state = "ok"
    THEN <<Head(fs)>> \o FrontMatterRecords(Tail(fs))
    ELSE FrontMatterRecords(Tail(fs))

\* What sh makes of the text that format! puts between the single quotes of
\* `jq -s '<filter>'`: a single quote in the text ends the quoted word.  With an
\* odd number of them the command has an unterminated quote and sh runs
\* nothing; with an even number the quotes are removed and the unquoted
\* letters and digits between them stay in the same word.  Other characters
\* outside the quotes (spaces, `;`, `|`, ...) are read by sh as syntax; no
\* query below puts any there.
ShArgument(text) ==
    LET quotes == {i \in 1..Len(text) : text[i] = "'"}
        outside == {i \in 1..Len(text) \ quotes :
                      Cardinality({q \in quotes : q < i}) % 2 = 1}
    IN
    IF quotes = {} THEN [ok |-> TRUE, arg |-> text]
    ELSE IF Cardinality(quotes) % 2 = 1 THEN [ok |-> FALSE, arg |-> <<>>]
    ELSE IF \E i \in outside : ~is_alphanumeric(text[i])
    THEN [ok |-> FALSE, arg |-> <<>>]
    ELSE [ok |-> TRUE, arg |-> SelectSeq(text, LAMBDA ch : ch # "'")]

RunFilter(vaultFiles, text) ==
    LET sh == ShArgument(text)
        c == JqCompile(sh.arg)
        files == FrontMatterRecords(vaultFiles)
    IN
    IF ~sh.ok THEN [ok |-> FALSE, notes |-> <<>>]
    ELSE IF ~c.ok THEN [ok |-> FALSE, notes |-> <<>>]
    ELSE IF \E i \in 1..Len(files) : JqEval(c.ast, NoteJson(files[i])).err
    THEN [ok |-> FALSE, notes |-> <<>>]
    ELSE [ok |-> TRUE, notes |-> JqSelect(files, c.ast)]

\* the loop over json["notes"]: an entry is kept when path and title are strings
RECURSIVE ParseOutput(_)
ParseOutput(notes) ==
    IF notes = <<>> THEN <<>>
    ELSE IF Head(notes).hasTitle
    THEN <<<<Head(notes).path, Head(notes).title>>>> \o ParseOutput(Tail(notes))
    ELSE ParseOutput(Tail(notes))

\* Result<Vec<(String, String)>>
NoResult   == [status |-> "none", rows |-> <<>>, err |-> ""]
ROk(rows)  == [status |-> "ok", rows |-> rows, err |-> ""]
RErr(msg)  == [status |-> "err", rows |-> <<>>, err |-> msg]

NoParse == [ok |-> FALSE, expr |-> NoExpr, pos |-> 0, err |-> "not parsed"]

-----------------------------------------------------------------------------
(* Inputs: vaults *)

NotePath(k)  == <<"n","o","t","e",k,".","m","d">>
NoteStem(k)  == <<"n","o","t","e",k>>
NoteTitle(w) == <<"N","o","t","e"," ">> \o w
Date2025(mm, dd) == <<"2","0","2","5","-">> \o mm \o <<"-">> \o dd

V_CLI  == <<"C","L","I">>
V_rust == <<"r","u","s","t">>

\* the four notes of test_complex_query_native / test_query_notes_complex
N1 == NoteFile(NotePath("1"), NoteStem("1"), TRUE, NoteTitle(<<"O","n","e">>),
               TRUE, Date2025(<<"0","3">>, <<"0","1">>), <<V_CLI>>)
N2 == NoteFile(NotePath("2"), NoteStem("2"), TRUE, NoteTitle(<<"T","w","o">>),
               TRUE, Date2025(<<"0","3">>, <<"1","5">>), <<V_rust>>)
N3 == NoteFile(NotePath("3"), NoteStem("3"), TRUE, NoteTitle(<<"T","h","r","e","e">>),
               TRUE, Date2025(<<"0","3">>, <<"2","0">>), <<V_CLI, V_rust>>)
N4 == NoteFile(NotePath("4"), NoteStem("4"), TRUE, NoteTitle(<<"F","o","u","r">>),
               TRUE, Date2025(<<"0","4">>, <<"0","5">>), <<V_CLI>>)
\* a note whose frontmatter has no date, and one that has no title
N5 == NoteFile(NotePath("5"), NoteStem("5"), TRUE, NoteTitle(<<"T","w","o">>),
               FALSE, <<>>, <<V_rust, V_rust>>)
N6 == NoteFile(NotePath("6"), NoteStem("6"), FALSE, <<>>,
               TRUE, Date2025(<<"0","3">>, <<"1","5">>), <<>>)

TestVault == <<N1, N2, N3, N4>>
EdgeVault == <<N2, N5, N6>>
Vaults == {<<>>, TestVault, EdgeVault}

-----------------------------------------------------------------------------
(* Inputs: query texts *)

MaxLen == 4     \* longest text enumerated character by character
MaxStall == 2   \* scan-loop iterations followed after the cursor stops moving

RawAlphabet == {"a", "=", "!", "(", ".", " "}

RECURSIVE TextsOfLen(_)
TextsOfLen(n) ==
    IF n = 0 THEN {<<>>}
    ELSE {Append(s, c) : s \in TextsOfLen(n - 1), c \in RawAlphabet}

RawTexts == UNION {TextsOfLen(n) : n \in 0..MaxLen}

Quoted(s) == <<"\"">> \o s \o <<"\"">>

\* words joined by single spaces
RECURSIVE JoinWords(_)
JoinWords(ws) ==
    IF ws = <<>> THEN <<>>
    ELSE IF Len(ws) = 1 THEN ws[1]
    ELSE ws[1] \o <<" ">> \o JoinWords(Tail(ws))

CondText(field, op, value) == JoinWords(<<field, op, Quoted(value)>>)

QFields == {S_tag, <<"T","A","G">>, S_date, <<"D","a","t","e">>, S_title,
            <<"k","i","n","d">>}
SixOps  == {<<"=">>, <<"!","=">>, <<">","=">>, <<"<","=">>, <<">">>, <<"<">>}
QOps    == SixOps \cup {<<"!">>, <<"=","=">>, <<"<",">">>}
QValues == {V_CLI, Date2025(<<"0","3">>, <<"1","5">>), NoteTitle(<<"T","w","o">>),
            <<"a","\\">>}

W_and == <<"a","n","d">>
W_or  == <<"o","r">>
W_not == <<"n","o","t">>

\* one condition, bare or negated
CondQueries ==
    UNION {{CondText(f, o, v), JoinWords(<<W_not, CondText(f, o, v)>>)} :
              f \in QFields, o \in QOps, v \in QValues}

\* the conditions that fill the shapes
ShapeConds == {CondText(S_tag, <<"=">>, V_CLI),
               CondText(S_date, <<">","=">>, Date2025(<<"0","3">>, <<"1","5">>)),
               CondText(S_title, <<"=">>, NoteTitle(<<"T","w","o">>))}

\* A, B, C stand for conditions; the other words are written as they are
Shapes ==
    {<<"A","and","B">>, <<"A","or","B">>, <<"A","and","not","B">>,
     <<"not","A","and","B">>, <<"not","A","or","B">>,
     <<"not","(","A","or","B",")">>, <<"not","not","A">>, <<"(","A",")">>,
     <<"A","or","B","and","C">>, <<"A","and","B","or","C">>,
     <<"A","or","B","or","C">>, <<"A","and","B","and","C">>,
     <<"(","A","or","B",")","and","C">>, <<"A","and","(","B","or","C",")">>,
     \* not well formed
     <<"A","B">>, <<"A","and">>, <<"A","or">>, <<"A","not">>, <<"A","(">>,
     <<"A",")">>, <<"(","A">>, <<"(","A","or","B">>, <<"and","A">>,
     <<"A","and","or","B">>, <<"not">>, <<"(",")">>, <<"A","and","(","B">>,
     <<"A","or","B",")","and","C">>}

ShapeWord(w, a, b, c) ==
    IF w = "A" THEN a ELSE IF w = "B" THEN b ELSE IF w = "C" THEN c
    ELSE IF w = "and" THEN W_and ELSE IF w = "or" THEN W_or
    ELSE IF w = "not" THEN W_not ELSE <<w>>

ShapeQueries ==
    {JoinWords([i \in 1..Len(sh) |-> ShapeWord(sh[i], a, b, c)]) :
        sh \in Shapes, a \in ShapeConds, b \in ShapeConds, c \in ShapeConds}

\* the queries of the repository's tests, and keyword and value spellings
Q_March ==
    JoinWords(<<CondText(S_date, <<">","=">>, Date2025(<<"0","3">>, <<"0","1">>)),
                W_and,
                CondText(S_date, <<"<","=">>, Date2025(<<"0","3">>, <<"3","1">>))>>)
Q_MarchNotCLI ==
    JoinWords(<<Q_March, W_and, W_not, CondText(S_tag, <<"=">>, V_CLI)>>)
Q_Complex ==
    JoinWords(<<Q_March, W_and,
                <<"(">> \o CondText(S_tag, <<"=">>, V_rust), W_or, W_not,
                CondText(S_tag, <<"=">>, V_CLI) \o <<")">>>>)
Q_EitherTag ==
    JoinWords(<<CondText(S_tag, <<"=">>, V_CLI), W_or,
                CondText(S_tag, <<"=">>, V_rust)>>)
Q_Spelled ==
    JoinWords(<<<<"N","O","T">>, S_tag, <<"=">>, V_CLI, <<"A","n","d">>,
                S_tag, <<"!","=">>, V_rust>>)

SampleQueries == {Q_March, Q_MarchNotCLI, Q_Complex, Q_EitherTag, Q_Spelled}

Queries == RawTexts \cup CondQueries \cup ShapeQueries \cup SampleQueries

-----------------------------------------------------------------------------
(* The state machine: the two entry points run on one query and one vault, *)
(* query_notes first and query_notes_native second, as in                  *)
(* test_query_native_vs_shell.                                             *)

Init ==
    /\ board_file = NoFile
    /\ workspace_file = NoFile
    /\ last = NoCall
    /\ \/ query \in RawTexts /\ vault = TestVault
       \/ query \in CondQueries \cup ShapeQueries \cup SampleQueries
          /\ vault \in Vaults
    /\ calls = <<"shell", "native">>
    /\ entry = "none"
    /\ pc = "idle"
    /\ pos = 1
    /\ tokens = <<>>
    /\ parsed = NoParse
    /\ jq_expr = <<>>
    /\ jqOut = <<>>
    /\ loaded = <<>>
    /\ nativeRes = NoResult
    /\ shellRes = NoResult
    /\ work = <<>>
    /\ workers = <<>>
    /\ stages = <<>>
    /\ tagsRes = NoResult

\* an entry that scans on from where the call before it stopped
StartCall_resumes ==
    /\ UNCHANGED storeVars
    /\ pc = "idle"
    /\ calls # <<>>
    /\ Head(calls) \in {"shell", "native"}
    /\ entry' = Head(calls)
    /\ calls' = Tail(calls)
    /\ pc' = "tokenize"
    /\ parsed' = NoParse
    /\ UNCHANGED <<query, vault, pos, tokens, jq_expr, jqOut, loaded, nativeRes,
                   shellRes>>
    /\ UNCHANGED <<parVars, pipeVars>>

\* the caller enters query_notes or query_notes_native, which calls
\* parse_query, which calls tokenize
StartCall ==
    /\ UNCHANGED storeVars
    /\ pc = "idle"
    /\ calls # <<>>
    /\ Head(calls) \in {"shell", "native"}
    /\ entry' = Head(calls)
    /\ calls' = Tail(calls)
    /\ pc' = "tokenize"
    /\ pos' = 1
    /\ tokens' = <<>>
    /\ parsed' = NoParse
    /\ UNCHANGED <<query, vault, jq_expr, jqOut, loaded, nativeRes, shellRes>>
    /\ UNCHANGED <<parVars, pipeVars>>

\* the number of empty identifiers at the end of the token vector
RECURSIVE EmptyRun(_)
EmptyRun(toks) ==
    IF toks # <<>> /\ toks[Len(toks)] = Identifier(<<>>)
    THEN 1 + EmptyRun(SubSeq(toks, 1, Len(toks) - 1))
    ELSE 0

\* one iteration of tokenize's scan loop
TokenizeStep ==
    /\ UNCHANGED storeVars
    /\ pc = "tokenize"
    /\ pos <= Len(query)
    /\ EmptyRun(tokens) < MaxStall
    /\ LET r == ScanStep(query, pos, tokens) IN
        /\ pos' = r.pos
        /\ tokens' = r.tokens
    /\ UNCHANGED <<query, vault, calls, entry, pc, parsed, jq_expr, jqOut,
                   loaded, nativeRes, shellRes>>
    /\ UNCHANGED <<parVars, pipeVars>>

\* chars.peek() is None: tokenize returns Ok(tokens)
TokenizeReturn ==
    /\ UNCHANGED storeVars
    /\ pc = "tokenize"
    /\ pos > Len(query)
    /\ pc' = "parse"
    /\ UNCHANGED <<query, vault, calls, entry, pos, tokens, parsed, jq_expr,
                   jqOut, loaded, nativeRes, shellRes>>
    /\ UNCHANGED <<parVars, pipeVars>>

\* an entry point that records the parse error and carries on
Parse_proceeds ==
    /\ UNCHANGED storeVars
    /\ pc = "parse"
    /\ LET r == parse_expression(tokens, 1) IN
        /\ parsed' = r
        /\ pc' = IF entry = "shell" THEN "compile" ELSE "load"
        /\ UNCHANGED entry
        /\ IF r.ok
           THEN UNCHANGED <<nativeRes, shellRes>>
           ELSE IF entry = "shell"
                THEN shellRes' = RErr(r.err) /\ UNCHANGED nativeRes
                ELSE nativeRes' = RErr(r.err) /\ UNCHANGED shellRes
    /\ UNCHANGED <<query, vault, calls, pos, tokens, jq_expr, jqOut, loaded>>
    /\ UNCHANGED <<parVars, pipeVars>>

\* parse_query: Parser::new(tokens).parse_expression(); an error is returned
\* to the caller of the entry point by `?`
Parse ==
    /\ UNCHANGED storeVars
    /\ pc = "parse"
    /\ LET r == parse_expression(tokens, 1) IN
        /\ parsed' = r
        /\ IF r.ok
           THEN /\ pc' = IF entry = "shell" THEN "compile" ELSE "load"
                /\ UNCHANGED <<entry, nativeRes, shellRes>>
           ELSE /\ pc' = "idle"
                /\ entry' = "none"
                /\ IF entry = "shell"
                   THEN shellRes' = RErr(r.err) /\ UNCHANGED nativeRes
                   ELSE nativeRes' = RErr(r.err) /\ UNCHANGED shellRes
    /\ UNCHANGED <<query, vault, calls, pos, tokens, jq_expr, jqOut, loaded>>
    /\ UNCHANGED <<parVars, pipeVars>>

\* query_notes: build_jq_expression(&ast)
Compile ==
    /\ UNCHANGED storeVars
    /\ pc = "compile"
    /\ jq_expr' = build_jq_expression(parsed.expr)
    /\ pc' = "pipeline"
    /\ UNCHANGED <<query, vault, calls, entry, pos, tokens, parsed, jqOut,
                   loaded, nativeRes, shellRes>>
    /\ UNCHANGED <<parVars, pipeVars>>

\* query_notes: the pipeline runs and exits with success
PipelineSucceeds ==
    /\ UNCHANGED storeVars
    /\ pc = "pipeline"
    /\ RunFilter(vault, jq_expr).ok
    /\ jqOut' = RunFilter(vault, jq_expr).notes
    /\ pc' = "output"
    /\ UNCHANGED <<query, vault, calls, entry, pos, tokens, parsed, jq_expr,
                   loaded, nativeRes, shellRes>>
    /\ UNCHANGED <<parVars, pipeVars>>

\* query_notes: the pipeline exits with a failure status
PipelineFails ==
    /\ UNCHANGED storeVars
    /\ pc = "pipeline"
    /\ ~RunFilter(vault, jq_expr).ok
    /\ shellRes' = RErr("Query pipeline failed")
    /\ pc' = "idle"
    /\ entry' = "none"
    /\ UNCHANGED <<query, vault, calls, pos, tokens, parsed, jq_expr, jqOut,
                   loaded, nativeRes>>
    /\ UNCHANGED <<parVars, pipeVars>>

\* query_notes: the printed JSON is read back into (path, title) pairs
ReadOutput ==
    /\ UNCHANGED storeVars
    /\ pc = "output"
    /\ shellRes' = ROk(ParseOutput(jqOut))
    /\ pc' = "idle"
    /\ entry' = "none"
    /\ UNCHANGED <<query, vault, calls, pos, tokens, parsed, jq_expr, jqOut,
                   loaded, nativeRes>>
    /\ UNCHANGED <<parVars, pipeVars>>

\* query_notes_native: load_notes(vault_directory)
LoadNotes ==
    /\ UNCHANGED storeVars
    /\ pc = "load"
    /\ LET r == load_notes(vault) IN
        IF r.ok
        THEN /\ loaded' = r.notes
             /\ pc' = "filter"
             /\ UNCHANGED <<entry, nativeRes>>
        ELSE /\ nativeRes' = RErr(r.err)
             /\ pc' = "idle"
             /\ entry' = "none"
             /\ UNCHANGED loaded
    /\ UNCHANGED <<query, vault, calls, pos, tokens, parsed, jq_expr,
                   jqOut, shellRes>>
    /\ UNCHANGED <<parVars, pipeVars>>

\* query_notes_native: the parallel filter and the collect
FilterNotes ==
    /\ UNCHANGED storeVars
    /\ pc = "filter"
    /\ nativeRes' = ROk(NativeFilter(loaded, parsed.expr))
    /\ pc' = "idle"
    /\ entry' = "none"
    /\ UNCHANGED <<query, vault, calls, pos, tokens, parsed, jq_expr, jqOut,
                   loaded, shellRes>>
    /\ UNCHANGED <<parVars, pipeVars>>

Next ==
    \/ StartCall
    \/ TokenizeStep
    \/ TokenizeReturn
    \/ Parse
    \/ Compile
    \/ PipelineSucceeds
    \/ PipelineFails
    \/ ReadOutput
    \/ LoadNotes
    \/ FilterNotes

Spec == Init /\ [][Next]_vars

-----------------------------------------------------------------------------
(* One condition against one note: the same calls, on notes and conditions *)
(* chosen to separate the verdicts of evaluate_expr.                       *)

MaxTags == 2    \* longest tag sequence of a note

V_cli == <<"c","l","i">>
EvalTagValues == {V_CLI, V_cli, V_rust}

RECURSIVE TagSeqs(_)
TagSeqs(n) ==
    IF n = 0 THEN {<<>>}
    ELSE {Append(t, v) : t \in TagSeqs(n - 1), v \in EvalTagValues}

EvalTags == UNION {TagSeqs(n) : n \in 0..MaxTags}

D_0301 == Date2025(<<"0","3">>, <<"0","1">>)
D_0315 == Date2025(<<"0","3">>, <<"1","5">>)
D_0331 == Date2025(<<"0","3">>, <<"3","1">>)
D_0405 == Date2025(<<"0","4">>, <<"0","5">>)
D_03   == <<"2","0","2","5","-","0","3">>

EvalDates == {D_0301, D_0315, D_0331, D_0405}

T_Two == NoteTitle(<<"T","w","o">>)

EvalNotes ==
    {NoteFile(NotePath("7"), NoteStem("7"), TRUE, T_Two, TRUE, D_0315, t) :
        t \in EvalTags}
    \cup {NoteFile(NotePath("8"), NoteStem("8"), TRUE, T_Two, TRUE, d, <<V_CLI>>) :
        d \in EvalDates}
    \cup {NoteFile(NotePath("9"), NoteStem("9"), TRUE, NoteTitle(<<"O","n","e">>),
                   FALSE, <<>>, <<V_CLI>>),
          N5, N6}

EvalVaults == {<<n>> : n \in EvalNotes}

EvalConds ==
    {CondText(f, o, v) : f \in {S_tag, <<"T","A","G">>}, o \in QOps,
                         v \in EvalTagValues}
    \cup {CondText(f, o, v) : f \in {S_date, <<"D","a","t","e">>}, o \in QOps,
                              v \in {D_0315, D_0331, D_03}}
    \cup {CondText(S_title, o, v) : o \in QOps, v \in {T_Two, NoteStem("6")}}
    \cup {CondText(<<"k","i","n","d">>, o, V_CLI) : o \in QOps}

EvalQueries ==
    EvalConds \cup {JoinWords(<<W_not, c>>) : c \in EvalConds} \cup {Q_March}

EvalInit ==
    /\ board_file = NoFile
    /\ workspace_file = NoFile
    /\ last = NoCall
    /\ query \in EvalQueries
    /\ vault \in EvalVaults
    /\ calls = <<"shell", "native">>
    /\ entry = "none"
    /\ pc = "idle"
    /\ pos = 1
    /\ tokens = <<>>
    /\ parsed = NoParse
    /\ jq_expr = <<>>
    /\ jqOut = <<>>
    /\ loaded = <<>>
    /\ nativeRes = NoResult
    /\ shellRes = NoResult
    /\ work = <<>>
    /\ workers = <<>>
    /\ stages = <<>>
    /\ tagsRes = NoResult

EvalSpec == EvalInit /\ [][Next]_vars

-----------------------------------------------------------------------------
(* Observations shared by the properties *)

\* parse_query has returned in the running or the last call
ParseDone == parsed # NoParse

\* both entry points have returned
BothReturned == pc = "idle" /\ calls = <<>>

Range(s) == {s[i] : i \in 1..Len(s)}

TypesOf(toks) == [i \in 1..Len(toks) |-> toks[i].type]

\* the condition spelled by the three tokens at i
CondAt(toks, i) == Condition(toks[i].text, toks[i + 1].text, toks[i + 2].text)

\* the paths the filter selected, and the paths the native filter returned
ShellSelected  == {jqOut[i].path : i \in 1..Len(jqOut)}
NativeSelected == {nativeRes.rows[i][1] : i \in 1..Len(nativeRes.rows)}

AllTitled(files) == \A i \in 1..Len(files) : files[i].hasTitle

\* the conditions of an expression
RECURSIVE ExprConds(_)
ExprConds(expr) ==
    IF expr.type = "Condition" THEN {expr}
    ELSE IF expr.type = "Not" THEN ExprConds(expr.inner)
    ELSE IF expr.type \in {"And", "Or"}
    THEN ExprConds(expr.lhs) \cup ExprConds(expr.rhs)
    ELSE {}

\* the query is one condition and nothing else, and it has been parsed
SingleCondition ==
    /\ parsed.ok
    /\ parsed.expr.type = "Condition"
    /\ parsed.pos = Len(tokens) + 1

\* what query_notes returns once the query text is tokenized to toks
ShellOutcome(toks, files) ==
    LET r == parse_expression(toks, 1) IN
    IF ~r.ok THEN RErr(r.err)
    ELSE LET out == RunFilter(files, build_jq_expression(r.expr)) IN
         IF out.ok THEN ROk(ParseOutput(out.notes))
         ELSE RErr("Query pipeline failed")

\* what query_notes_native returns once the query text is tokenized to toks
NativeOutcome(toks, files) ==
    LET r == parse_expression(toks, 1) IN
    IF ~r.ok THEN RErr(r.err)
    ELSE LET l == load_notes(files) IN
         IF l.ok THEN ROk(NativeFilter(l.notes, r.expr)) ELSE RErr(l.err)

-----------------------------------------------------------------------------
(* C1 *)

\* C1: for every query that parses to its last token (its operators among the
\* six of the DSL, its fields among tag, date and title) and every vault (whose notes all carry a title, so that both paths see the
\* same records), query_notes and query_notes_native return the same set of
\* (path, title) pairs.
C1_BackendsAgree ==
    (/\ BothReturned
     /\ nativeRes.status = "ok"
     /\ AllTitled(vault)
     /\ parsed.pos = Len(tokens) + 1
     /\ \A c \in ExprConds(parsed.expr) :
           c.op \in SixOps /\ c.field \in {S_tag, S_date, S_title})
        => /\ shellRes.status = "ok"
           /\ Range(shellRes.rows) = Range(nativeRes.rows)

-----------------------------------------------------------------------------
(* C2 *)

\* the parenthesis depth in front of token i
DepthBefore(ts, i) ==
    Cardinality({j \in 1..(i - 1) : ts[j].type = "LParen"})
    - Cardinality({j \in 1..(i - 1) : ts[j].type = "RParen"})

\* the last token of the given type outside all parentheses, 0 if none
LastTop(ts, type) ==
    LET at == {i \in 1..Len(ts) : ts[i].type = type /\ DepthBefore(ts, i) = 0} IN
    IF at = {} THEN 0 ELSE CHOOSE i \in at : \A j \in at : j <= i

\* The tree the grammar of the DSL gives a well-formed token sequence, found
\* by splitting: at the last `or` outside parentheses; failing that at the
\* last `and` outside parentheses; failing that a leading `not` negates the
\* rest; failing that a pair of parentheses encloses the rest.
RECURSIVE GrammarTree(_)
GrammarTree(ts) ==
    LET o == LastTop(ts, "Or")
        a == LastTop(ts, "And") IN
    IF o > 0 THEN Or(GrammarTree(SubSeq(ts, 1, o - 1)),
                     GrammarTree(SubSeq(ts, o + 1, Len(ts))))
    ELSE IF a > 0 THEN And(GrammarTree(SubSeq(ts, 1, a - 1)),
                           GrammarTree(SubSeq(ts, a + 1, Len(ts))))
    ELSE IF ts[1].type = "Not" THEN Not(GrammarTree(Tail(ts)))
    ELSE IF ts[1].type = "LParen" THEN GrammarTree(SubSeq(ts, 2, Len(ts) - 1))
    ELSE CondAt(ts, 1)

T_Cond == <<"Identifier", "Operator", "StringLiteral">>

\* C2: the tree parse_query returns is the one the grammar dictates for the
\* tokens it read: `or` binds weaker than `and`, `and` weaker than `not`, both
\* binary operators associate to the left and parentheses override; and
\* `a or b and c` is Or(a, And(b, c)), `not a and b` is And(Not(a), b),
\* `a or b or c` is Or(Or(a, b), c), `(a or b) and c` is And(Or(a, b), c).
C2_ParseFollowsGrammar ==
    /\ parsed.ok =>
          parsed.expr = GrammarTree(SubSeq(tokens, 1, parsed.pos - 1))
    /\ (ParseDone /\ TypesOf(tokens) = T_Cond \o <<"Or">> \o T_Cond \o <<"And">> \o T_Cond)
          => /\ parsed.ok
             /\ parsed.expr = Or(CondAt(tokens, 1),
                                 And(CondAt(tokens, 5), CondAt(tokens, 9)))
    /\ (ParseDone /\ TypesOf(tokens) = <<"Not">> \o T_Cond \o <<"And">> \o T_Cond)
          => /\ parsed.ok
             /\ parsed.expr = And(Not(CondAt(tokens, 2)), CondAt(tokens, 6))
    /\ (ParseDone /\ TypesOf(tokens) = T_Cond \o <<"Or">> \o T_Cond \o <<"Or">> \o T_Cond)
          => /\ parsed.ok
             /\ parsed.expr = Or(Or(CondAt(tokens, 1), CondAt(tokens, 5)),
                                 CondAt(tokens, 9))
    /\ (ParseDone /\ TypesOf(tokens) = <<"LParen">> \o T_Cond \o <<"Or">> \o T_Cond
                                         \o <<"RParen", "And">> \o T_Cond)
          => /\ parsed.ok
             /\ parsed.expr = And(Or(CondAt(tokens, 2), CondAt(tokens, 6)),
                                  CondAt(tokens, 11))

\* `a or b and c` has been parsed, to an Or whose right operand is an And
C2_Witness ==
    /\ ParseDone
    /\ TypesOf(tokens) = T_Cond \o <<"Or">> \o T_Cond \o <<"And">> \o T_Cond
    /\ parsed.ok
    /\ parsed.pos = Len(tokens) + 1
    /\ parsed.expr.type = "Or"
    /\ parsed.expr.rhs.type = "And"

-----------------------------------------------------------------------------
(* C3 *)

\* C3: whenever parse_query returns an AST, every token of the input has been
\* consumed.
C3_WholeStreamConsumed == parsed.ok => parsed.pos = Len(tokens) + 1

-----------------------------------------------------------------------------
(* C4 *)

\* C4: every iteration of tokenize's scan loop consumes at least one input
\* character (so the loop ends after at most Len(query) iterations).
C4_EveryIterationConsumes ==
    [][(pc = "tokenize" /\ pc' = "tokenize") => pos' > pos]_vars

-----------------------------------------------------------------------------
(* C5 *)

\* a `(` of the token sequence has no matching `)`
RECURSIVE OpenParens(_, _)
OpenParens(ts, depth) ==
    IF ts = <<>> THEN depth
    ELSE IF Head(ts).type = "LParen" THEN OpenParens(Tail(ts), depth + 1)
    ELSE IF Head(ts).type = "RParen" /\ depth > 0
    THEN OpenParens(Tail(ts), depth - 1)
    ELSE OpenParens(Tail(ts), depth)

\* token i stands where a condition has to start
ConditionStart(ts, i) ==
    i = 1 \/ ts[i - 1].type \in {"And", "Or", "Not", "LParen"}

\* the token sequence has one of the defects parse_query is to report
Malformed(ts) ==
    \/ ts = <<>>
    \/ ts # <<>> /\ ts[Len(ts)].type \in {"And", "Or", "Not", "LParen"}
    \/ OpenParens(ts, 0) > 0
    \/ \E i \in 1..Len(ts) :
          \* a condition without its field name
          \/ /\ ts[i].type \in {"Operator", "StringLiteral"}
             /\ ConditionStart(ts, i)
          \* a condition without its operator
          \/ /\ ts[i].type = "Identifier"
             /\ ConditionStart(ts, i)
             /\ (i = Len(ts) \/ ts[i + 1].type # "Operator")
          \* a condition without its value
          \/ /\ ts[i].type = "Operator"
             /\ (i = Len(ts)
                 \/ ts[i + 1].type \notin {"Identifier", "StringLiteral"})

\* C5: parse_query returns a ParseError, and no AST, whenever a condition
\* lacks its field name, its operator or its value, or a `(` has no matching
\* `)`; also for the empty query and a query ending in and, or, not or `(`.
C5_MalformedIsRejected == (ParseDone /\ Malformed(tokens)) => ~parsed.ok

-----------------------------------------------------------------------------
(* C6 *)

\* C6: every Operator token emitted by tokenize, and the op of every condition
\* of a returned AST, is one of =, !=, >=, <=, >, <.
C6_OnlySixOperators ==
    /\ \A i \in 1..Len(tokens) :
          tokens[i].type = "Operator" => tokens[i].text \in SixOps
    /\ parsed.ok => \A c \in ExprConds(parsed.expr) : c.op \in SixOps

-----------------------------------------------------------------------------
(* C7 *)

\* the notes whose title (date) is the string v
NotesWith(field, v) ==
    {vault[i].path : i \in {j \in 1..Len(vault) :
        IF field = S_title THEN vault[j].hasTitle /\ vault[j].title = v
        ELSE vault[j].hasDate /\ vault[j].date = v}}

\* C7: the query `title = v` (likewise `date = v`) selects exactly the notes
\* whose title (date) is v, through the compiled filter as through
\* evaluate_expr, whenever both calls return a result.
C7_EqualsIsEquality ==
    (/\ BothReturned
     /\ SingleCondition
     /\ parsed.expr.field \in {S_title, S_date}
     /\ parsed.expr.op = <<"=">>
     /\ AllTitled(vault)
     /\ nativeRes.status = "ok"
     /\ shellRes.status = "ok")
        => /\ NativeSelected = NotesWith(parsed.expr.field, parsed.expr.value)
           /\ ShellSelected = NotesWith(parsed.expr.field, parsed.expr.value)

-----------------------------------------------------------------------------
(* C8 *)

NotesWithoutDate == {vault[i].path : i \in {j \in 1..Len(vault) : ~vault[j].hasDate}}

\* C8: in the compiled-filter path, as in the native one, a condition with one
\* of the six operators selects no note that lacks the field: a date condition
\* selects no note without a date, and a condition on a field other than tag,
\* date and title selects nothing.
C8_AbsentFieldSelectsNothing ==
    (/\ BothReturned
     /\ SingleCondition
     /\ parsed.expr.op \in SixOps
     /\ nativeRes.status = "ok"
     /\ shellRes.status = "ok")
        => /\ parsed.expr.field = S_date =>
                /\ NativeSelected \cap NotesWithoutDate = {}
                /\ ShellSelected \cap NotesWithoutDate = {}
           /\ to_lowercase(parsed.expr.field) \notin {S_tag, S_date, S_title} =>
                /\ NativeSelected = {}
                /\ ShellSelected = {}

-----------------------------------------------------------------------------
(* C9 *)

\* the token sequence with every field name (an identifier in front of an
\* operator) in lower case
LowerFieldTokens(ts) ==
    [i \in 1..Len(ts) |->
        IF /\ ts[i].type = "Identifier"
           /\ i < Len(ts)
           /\ ts[i + 1].type = "Operator"
        THEN Identifier(to_lowercase(ts[i].text))
        ELSE ts[i]]

\* C9: a query and the query that differs from it only in the letter case of
\* its field names select the same notes, through evaluate_expr and through
\* the compiled filter.
C9_FieldCaseIgnored ==
    (BothReturned /\ parsed.ok)
        => /\ NativeOutcome(LowerFieldTokens(tokens), vault) = nativeRes
           /\ ShellOutcome(LowerFieldTokens(tokens), vault) = shellRes

-----------------------------------------------------------------------------
(* C10 *)

\* C10: for every query that parse_query accepts, the text build_jq_expression
\* returns compiles in the filter tool.
C10_CompiledTextIsValid == pc = "pipeline" => JqCompile(jq_expr).ok

-----------------------------------------------------------------------------
(* C11 *)

\* query_notes_native has returned Ok for a query read to its last token
NativeAnswered ==
    /\ nativeRes.status = "ok"
    /\ parsed.ok
    /\ parsed.pos = Len(tokens) + 1

PathsWhere(Keep(_)) == {vault[i].path : i \in {j \in 1..Len(vault) : Keep(vault[j])}}

\* C11: in the native evaluator `tag = v` is true for a note exactly when v is,
\* letter case included, an element of the note's tags, `tag != v` exactly
\* when it is none; the verdict is the same for every tag sequence with the
\* same elements, in whatever order and however often repeated.
C11_TagIsMembership ==
    (/\ NativeAnswered
     /\ parsed.expr.type = "Condition"
     /\ to_lowercase(parsed.expr.field) = S_tag
     /\ parsed.expr.op \in {<<"=">>, <<"!","=">>})
        => LET v == parsed.expr.value
               Has(f) == v \in Range(f.tags)
               Lacks(f) == v \notin Range(f.tags)
           IN
           /\ parsed.expr.op = <<"=">> => NativeSelected = PathsWhere(Has)
           /\ parsed.expr.op = <<"!","=">> => NativeSelected = PathsWhere(Lacks)
           /\ \A i \in 1..Len(vault) : \A t \in EvalTags :
                 Range(t) = Range(vault[i].tags)
                    => evaluate_expr(NoteMetadata([vault[i] EXCEPT !.tags = t]),
                                     parsed.expr)
                       = evaluate_expr(NoteMetadata(vault[i]), parsed.expr)

\* `tag = "CLI"` has selected a note whose tags are rust, CLI in this order
C11_Witness ==
    /\ NativeAnswered
    /\ parsed.expr = Condition(S_tag, <<"=">>, V_CLI)
    /\ Len(vault) = 1
    /\ vault[1].tags = <<V_rust, V_CLI>>
    /\ NativeSelected = {vault[1].path}

-----------------------------------------------------------------------------
(* C12 *)

\* s is before t in the lexicographic order of the character codes
LexLess(s, t) ==
    \E k \in 1..Len(t) :
        /\ k <= Len(s) + 1
        /\ \A j \in 1..(k - 1) : s[j] = t[j]
        /\ k = Len(s) + 1 \/ CharCode(s[k]) < CharCode(t[k])

LexVerdict(op, d, v) ==
    IF op = <<"=">> THEN d = v
    ELSE IF op = <<"!","=">> THEN d # v
    ELSE IF op = <<">","=">> THEN d = v \/ LexLess(v, d)
    ELSE IF op = <<"<","=">> THEN d = v \/ LexLess(d, v)
    ELSE IF op = <<">">> THEN LexLess(v, d)
    ELSE LexLess(d, v)

\* C12: in the native evaluator a date condition with one of the six operators
\* is false for a note without a date and is, for a note with a date, the
\* lexicographic comparison of the note's date with the value; both bounds of
\* `date >= a and date <= b` are inclusive.
C12_DateIsLexicographic ==
    /\ (/\ NativeAnswered
        /\ parsed.expr.type = "Condition"
        /\ to_lowercase(parsed.expr.field) = S_date
        /\ parsed.expr.op \in SixOps)
          => LET Holds(f) == /\ f.hasDate
                             /\ LexVerdict(parsed.expr.op, f.date, parsed.expr.value)
             IN NativeSelected = PathsWhere(Holds)
    /\ (NativeAnswered /\ query = Q_March)
          => LET InMarch(f) == f.hasDate /\ f.date \in {D_0301, D_0315, D_0331}
             IN NativeSelected = PathsWhere(InMarch)

\* the March range has selected the note dated on its upper bound
C12_Witness ==
    /\ NativeAnswered
    /\ query = Q_March
    /\ Len(vault) = 1
    /\ vault[1].hasDate
    /\ vault[1].date = D_0331
    /\ NativeSelected = {vault[1].path}

-----------------------------------------------------------------------------
(* C13 *)

\* evaluate_expr has no verdict for the field/operator pair of the condition
Unsupported(c) ==
    LET field == to_lowercase(c.field) IN
    \/ field \in {S_tag, S_title} /\ c.op \notin {<<"=">>, <<"!","=">>}
    \/ field \notin {S_tag, S_date, S_title}

\* C13: in the native evaluator a condition on tag or title with an operator
\* other than = and !=, or on a field other than tag, date and title, is false
\* for every note and raises no error; `not` applied to it is true for every
\* note.
C13_UnsupportedIsFalse ==
    /\ (/\ pc = "idle"
        /\ entry = "none"
        /\ calls = <<>>
        /\ parsed.ok
        /\ \A c \in ExprConds(parsed.expr) : Unsupported(c))
          => nativeRes.status = "ok"
    /\ (/\ NativeAnswered
        /\ parsed.expr.type = "Condition"
        /\ Unsupported(parsed.expr))
          => NativeSelected = {}
    /\ (/\ NativeAnswered
        /\ parsed.expr.type = "Not"
        /\ parsed.expr.inner.type = "Condition"
        /\ Unsupported(parsed.expr.inner))
          => NativeSelected = {vault[i].path : i \in 1..Len(vault)}

\* `not title < "Note Two"` has selected a note whose title sorts before it
C13_Witness ==
    /\ NativeAnswered
    /\ parsed.expr = Not(Condition(S_title, <<"<">>, T_Two))
    /\ Len(vault) = 1
    /\ vault[1].title = NoteTitle(<<"O","n","e">>)
    /\ NativeSelected = {vault[1].path}

-----------------------------------------------------------------------------
(* C15 *)

\* (.tags | index("v") != null)   and   (.tags | index("v") == null)
MembershipText(v) ==
    <<"(",".","t","a","g","s"," ","|"," ","i","n","d","e","x","(","\"">> \o v
        \o <<"\"",")"," ","!","="," ","n","u","l","l",")">>
NonMembershipText(v) ==
    <<"(",".","t","a","g","s"," ","|"," ","i","n","d","e","x","(","\"">> \o v
        \o <<"\"",")"," ","=","="," ","n","u","l","l",")">>

IsTagCondition(e, op) ==
    /\ e.type = "Condition"
    /\ to_lowercase(e.field) = S_tag
    /\ e.op = op

-----------------------------------------------------------------------------
(* C16 *)

\* C16: for `not tag != "x"`, whatever the value x, and every note (whose
\* record has a tags array) the native evaluator and the compiled filter
\* select the note exactly when x is among its tags.
C16_NotTagNeAgrees ==
    (/\ BothReturned
     /\ parsed.ok
     /\ parsed.pos = Len(tokens) + 1
     /\ parsed.expr.type = "Not"
     /\ IsTagCondition(parsed.expr.inner, <<"!","=">>))
        => LET Has(f) == parsed.expr.inner.value \in Range(f.tags) IN
           /\ nativeRes.status = "ok"
           /\ shellRes.status = "ok"
           /\ NativeSelected = PathsWhere(Has)
           /\ ShellSelected = PathsWhere(Has)

-----------------------------------------------------------------------------
(* query_notes_native with the parallel filter taken apart: one work unit   *)
(* per record, run by any worker thread in any order                        *)
(* (notes.into_par_iter().filter(..).map(..).collect()).                    *)

NumWorkers == 2

Unit(state, by) == [state |-> state, by |-> by]

\* collect(): the pairs of the kept records, in the order of the records
RECURSIVE ParRows_first_worker(_, _)
ParRows_first_worker(notes, units) ==
    IF notes = <<>> THEN <<>>
    ELSE IF Head(units).state = "kept" /\ Head(units).by = 1
    THEN <<<<Head(notes).path, Head(notes).title>>>>
             \o ParRows_first_worker(Tail(notes), Tail(units))
    ELSE ParRows_first_worker(Tail(notes), Tail(units))

RECURSIVE ParRows(_, _)
ParRows(notes, units) ==
    IF notes = <<>> THEN <<>>
    ELSE IF Head(units).state = "kept"
    THEN <<<<Head(notes).path, Head(notes).title>>>>
             \o ParRows(Tail(notes), Tail(units))
    ELSE ParRows(Tail(notes), Tail(units))

ParQueries == SampleQueries \cup ShapeConds

ParInit ==
    /\ board_file = NoFile
    /\ workspace_file = NoFile
    /\ last = NoCall
    /\ query \in ParQueries
    /\ vault \in Vaults
    /\ calls = <<"native">>
    /\ entry = "none"
    /\ pc = "idle"
    /\ pos = 1
    /\ tokens = <<>>
    /\ parsed = NoParse
    /\ jq_expr = <<>>
    /\ jqOut = <<>>
    /\ loaded = <<>>
    /\ nativeRes = NoResult
    /\ shellRes = NoResult
    /\ work = <<>>
    /\ workers = <<>>
    /\ stages = <<>>
    /\ tagsRes = NoResult

\* into_par_iter(): the records become work units, the pool's threads are idle
ParSplit ==
    /\ UNCHANGED storeVars
    /\ pc = "filter"
    /\ work' = [i \in 1..Len(loaded) |-> Unit("pending", 0)]
    /\ workers' = [w \in 1..NumWorkers |-> 0]
    /\ pc' = "par"
    /\ UNCHANGED <<query, vault, calls, entry, pos, tokens, parsed, jq_expr,
                   jqOut, loaded, nativeRes, shellRes, pipeVars>>

\* an idle worker takes a record nobody has taken
ParTake(w, i) ==
    /\ UNCHANGED storeVars
    /\ pc = "par"
    /\ workers[w] = 0
    /\ work[i].state = "pending"
    /\ workers' = [workers EXCEPT ![w] = i]
    /\ work' = [work EXCEPT ![i] = Unit("taken", w)]
    /\ UNCHANGED <<query, vault, calls, entry, pc, pos, tokens, parsed, jq_expr,
                   jqOut, loaded, nativeRes, shellRes, pipeVars>>

\* the worker runs the filter closure on its record: evaluate_expr(note, &ast)
ParFinish(w) ==
    /\ UNCHANGED storeVars
    /\ pc = "par"
    /\ workers[w] # 0
    /\ LET i == workers[w] IN
        work' = [work EXCEPT ![i] =
                    Unit(IF evaluate_expr(loaded[i], parsed.expr)
                         THEN "kept" ELSE "dropped", w)]
    /\ workers' = [workers EXCEPT ![w] = 0]
    /\ UNCHANGED <<query, vault, calls, entry, pc, pos, tokens, parsed, jq_expr,
                   jqOut, loaded, nativeRes, shellRes, pipeVars>>

\* every record has been filtered: collect() and Ok(results)
ParCollect ==
    /\ UNCHANGED storeVars
    /\ pc = "par"
    /\ \A i \in 1..Len(work) : work[i].state \in {"kept", "dropped"}
    /\ nativeRes' = ROk(ParRows(loaded, work))
    /\ pc' = "idle"
    /\ entry' = "none"
    /\ UNCHANGED <<query, vault, calls, pos, tokens, parsed, jq_expr, jqOut,
                   loaded, shellRes, parVars, pipeVars>>

ParNext ==
    \/ StartCall
    \/ TokenizeStep
    \/ TokenizeReturn
    \/ Parse
    \/ LoadNotes
    \/ ParSplit
    \/ \E w \in 1..NumWorkers : \E i \in 1..Len(work) : ParTake(w, i)
    \/ \E w \in 1..NumWorkers : ParFinish(w)
    \/ ParCollect

ParSpec == ParInit /\ [][ParNext]_vars

-----------------------------------------------------------------------------
(* C14 *)

PairOf(note) == <<note.path, note.title>>

\* the result holds the pair of every matching record once, and nothing else
ExactlyTheMatches(rows, notes, ast) ==
    /\ \A i \in 1..Len(notes) :
          Cardinality({k \in 1..Len(rows) : rows[k] = PairOf(notes[i])})
            = IF evaluate_expr(notes[i], ast) THEN 1 ELSE 0
    /\ \A k \in 1..Len(rows) : \E i \in 1..Len(notes) : rows[k] = PairOf(notes[i])

\* C14: query_notes_native returns the (path, title) pair of exactly the
\* loaded records for which evaluate_expr is true, each once and unaltered,
\* whichever worker filters which record and in whatever order; a step of a
\* worker changes the unit it holds and nothing another worker reads.
C14_ParallelFilterIsExact ==
    /\ [](nativeRes.status = "ok"
            => ExactlyTheMatches(nativeRes.rows, load_notes(vault).notes, parsed.expr))
    /\ [][(pc = "par" /\ pc' = "par")
            => /\ loaded' = loaded
               /\ parsed' = parsed
               /\ nativeRes' = nativeRes
               /\ Cardinality({i \in 1..Len(work) : work'[i] # work[i]}) <= 1]_vars

\* two notes were returned, filtered by different workers, the later record
\* by the first worker
C14_Witness ==
    /\ nativeRes.status = "ok"
    /\ Len(nativeRes.rows) = 2
    /\ Len(work) = 4
    /\ work[2] = Unit("kept", 2)
    /\ work[3] = Unit("kept", 1)

-----------------------------------------------------------------------------
(* The two entry points on a vault in which one file cannot be listed, read *)
(* or parsed.                                                               *)

\* the vault of the tests with its k-th file in state st
WithFault(k, st) == [TestVault EXCEPT ![k] = InState(TestVault[k], st)]

FaultVaults ==
    {WithFault(k, st) : k \in 1..Len(TestVault), st \in FileStates}

FaultQueries ==
    {Q_March, Q_Complex, CondText(S_tag, <<"=">>, V_CLI),
     CondText(S_tag, <<"!">>, V_CLI)}

FaultInit ==
    /\ board_file = NoFile
    /\ workspace_file = NoFile
    /\ last = NoCall
    /\ query \in FaultQueries
    /\ vault \in FaultVaults
    /\ calls = <<"shell", "native">>
    /\ entry = "none"
    /\ pc = "idle"
    /\ pos = 1
    /\ tokens = <<>>
    /\ parsed = NoParse
    /\ jq_expr = <<>>
    /\ jqOut = <<>>
    /\ loaded = <<>>
    /\ nativeRes = NoResult
    /\ shellRes = NoResult
    /\ work = <<>>
    /\ workers = <<>>
    /\ stages = <<>>
    /\ tagsRes = NoResult

FaultSpec == FaultInit /\ [][Next]_vars

\* The commands inside the loop of query_notes' pipeline that exit with a
\* failure status: sed on a file it cannot read, yq on a frontmatter block
\* that is not valid YAML.
FailedStages(files) ==
    {<<"sed", files[i].path>> : i \in {j \in 1..Len(files) :
                                        files[j].state = "unreadable"}}
    \cup {<<"yq", files[i].path>> : i \in {j \in 1..Len(files) :
                                        files[j].state = "bad_yaml"}}

-----------------------------------------------------------------------------
(* C17 *)

\* C17: a pipeline call in which some stage, intermediate or final, exits
\* with a failure status returns an error; it never returns Ok with results
\* derived from the output of the failed stage.
C17_FailedStageIsFatal ==
    shellRes.status = "ok" => FailedStages(vault) = {}

-----------------------------------------------------------------------------
(* C19 *)

\* C19: query_notes_native returns Ok only when every note of the vault was
\* loaded: if a markdown file cannot be read, its frontmatter is not valid
\* YAML, or an entry of the directory walk reports an error, it returns an
\* error.
C19_NoLoadFailureSwallowed ==
    nativeRes.status = "ok"
        => \A i \in 1..Len(vault) :
              vault[i].state \notin {"unreadable", "bad_yaml", "walk_error"}

-----------------------------------------------------------------------------
(* The pipelines process by process: get_all_tags, which chains four rg     *)
(* children with run_pipeline_stage, and query_notes, which hands one       *)
(* pipeline to sh and waits for it with Command::output().                  *)

NumStages == 4      \* get_all_tags: stage1_cmd .. stage4_cmd

\* a child process: "running", "exited" (not yet waited for) or "reaped"
Proc(prog) == [prog |-> prog, state |-> "running", status |-> 0, stderr |-> ""]

\* How an rg stage may end: "normal" is status 0 with output or status 1
\* without (no line selected); "error" is status 2; "notfound" is status 1
\* with `command not found` on stderr.
ExitKinds == {"normal", "error", "notfound"}

RECURSIVE TagsIn(_)
TagsIn(files) ==
    IF files = <<>> THEN {}
    ELSE (IF Head(files).state = "ok" THEN Range(Head(files).tags) ELSE {})
            \cup TagsIn(Tail(files))

\* unique_tags sorted: sorted_tags.sort_unstable()
RECURSIVE SortedSeq(_)
SortedSeq(S) ==
    IF S = {} THEN <<>>
    ELSE LET least == CHOOSE x \in S : \A y \in S : StrLessEq(x, y)
         IN <<least>> \o SortedSeq(S \ {least})

Exited(p, kind, hasOutput) ==
    [p EXCEPT !.state = "exited",
              !.status = IF kind = "error" THEN 2
                         ELSE IF kind = "notfound" THEN 1
                         ELSE IF hasOutput THEN 0 ELSE 1,
              !.stderr = IF kind = "notfound" THEN "command not found"
                         ELSE IF kind = "error" THEN "rg: error" ELSE ""]

\* the test run_pipeline_stage applies to the previous stage's exit
PrevStageFatal(p) ==
    /\ p.status # 0
    /\ \/ p.status # 1
       \/ p.stderr = "command not found"

PipeInit ==
    /\ board_file = NoFile
    /\ workspace_file = NoFile
    /\ last = NoCall
    /\ query \in FaultQueries
    /\ vault \in {<<>>, TestVault}
    /\ calls \in {<<"tags">>, <<"shell">>}
    /\ entry = "none"
    /\ pc = "idle"
    /\ pos = 1
    /\ tokens = <<>>
    /\ parsed = NoParse
    /\ jq_expr = <<>>
    /\ jqOut = <<>>
    /\ loaded = <<>>
    /\ nativeRes = NoResult
    /\ shellRes = NoResult
    /\ work = <<>>
    /\ workers = <<>>
    /\ stages = <<>>
    /\ tagsRes = NoResult

\* the caller enters get_all_tags
StartTags ==
    /\ UNCHANGED storeVars
    /\ pc = "idle"
    /\ calls # <<>>
    /\ Head(calls) = "tags"
    /\ entry' = "tags"
    /\ calls' = Tail(calls)
    /\ pc' = "spawn"
    /\ stages' = <<>>
    /\ UNCHANGED <<query, vault, pos, tokens, parsed, jq_expr, jqOut, loaded,
                   nativeRes, shellRes, parVars, tagsRes>>

\* run_pipeline_stage: command.spawn() succeeds; the previous stage, if any,
\* is waited for next
TagsSpawn ==
    /\ UNCHANGED storeVars
    /\ pc = "spawn"
    /\ Len(stages) < NumStages
    /\ stages' = Append(stages, Proc("rg"))
    /\ pc' = IF stages = <<>> THEN "spawn" ELSE "wait_prev"
    /\ UNCHANGED <<query, vault, calls, entry, pos, tokens, parsed, jq_expr,
                   jqOut, loaded, nativeRes, shellRes, parVars, tagsRes>>

\* run_pipeline_stage: command.spawn() fails, get_all_tags returns the error
TagsSpawnFails ==
    /\ UNCHANGED storeVars
    /\ pc = "spawn"
    /\ Len(stages) < NumStages
    /\ tagsRes' = RErr("Failed to spawn command: rg")
    /\ pc' = "idle"
    /\ entry' = "none"
    /\ UNCHANGED <<query, vault, calls, pos, tokens, parsed, jq_expr, jqOut,
                   loaded, nativeRes, shellRes, parVars, stages>>

\* an rg child ends: on an error at any time, otherwise once it has read its
\* input to the end, which the stage before it closes by ending
TagsStageExits(i, kind) ==
    /\ UNCHANGED storeVars
    /\ entry = "tags"
    /\ stages[i].state = "running"
    /\ IF kind = "normal" /\ i > 1 THEN stages[i - 1].state # "running" ELSE TRUE
    /\ stages' = [stages EXCEPT ![i] = Exited(stages[i], kind, TagsIn(vault) # {})]
    /\ UNCHANGED <<query, vault, calls, entry, pc, pos, tokens, parsed, jq_expr,
                   jqOut, loaded, nativeRes, shellRes, parVars, tagsRes>>

\* run_pipeline_stage without the wait for the previous stage
TagsWaitPrev_nowait ==
    /\ UNCHANGED storeVars
    /\ pc = "wait_prev"
    /\ pc' = IF Len(stages) = NumStages THEN "wait_final" ELSE "spawn"
    /\ UNCHANGED <<query, vault, calls, entry, pos, tokens, parsed, jq_expr,
                   jqOut, loaded, nativeRes, shellRes, parVars, stages, tagsRes>>

\* run_pipeline_stage: previous.wait_with_output() returns once the previous
\* stage has ended; its status decides between Err and Ok(child)
TagsWaitPrev ==
    /\ UNCHANGED storeVars
    /\ pc = "wait_prev"
    /\ LET k == Len(stages) - 1 IN
        /\ stages[k].state = "exited"
        /\ stages' = [stages EXCEPT ![k].state = "reaped"]
        /\ IF PrevStageFatal(stages[k])
           THEN /\ tagsRes' = RErr("Previous command in pipe failed")
                /\ pc' = "idle"
                /\ entry' = "none"
           ELSE /\ pc' = IF Len(stages) = NumStages THEN "wait_final" ELSE "spawn"
                /\ UNCHANGED <<entry, tagsRes>>
    /\ UNCHANGED <<query, vault, calls, pos, tokens, parsed, jq_expr, jqOut,
                   loaded, nativeRes, shellRes, parVars>>

\* get_all_tags: stage4_cmd.wait_with_output() reads the output to its end
\* and waits for the child; then the status test, the set and the sort
TagsWaitFinal ==
    /\ UNCHANGED storeVars
    /\ pc = "wait_final"
    /\ LET p == stages[NumStages] IN
        /\ p.state = "exited"
        /\ stages' = [stages EXCEPT ![NumStages].state = "reaped"]
        /\ tagsRes' = IF p.status \notin {0, 1}
                      THEN RErr("Pipeline stage 4 failed")
                      ELSE IF p.status = 1 THEN ROk(<<>>)
                      ELSE ROk(SortedSeq(TagsIn(vault)))
    /\ pc' = "idle"
    /\ entry' = "none"
    /\ UNCHANGED <<query, vault, calls, pos, tokens, parsed, jq_expr, jqOut,
                   loaded, nativeRes, shellRes, parVars>>

\* query_notes: Command::new("sh").arg("-c").arg(&cmd).output() starts sh,
\* which starts the three commands of its pipeline
ShStart ==
    /\ UNCHANGED storeVars
    /\ pc = "pipeline"
    /\ stages' = <<Proc("sh"), Proc("fd"), Proc("while"), Proc("jq")>>
    /\ pc' = "sh"
    /\ UNCHANGED <<query, vault, calls, entry, pos, tokens, parsed, jq_expr,
                   jqOut, loaded, nativeRes, shellRes, parVars, tagsRes>>

\* A command of sh's pipeline ends: fd when it has listed the files, the loop
\* when its input has ended, jq -s at once with status 3 when the filter does
\* not compile, and otherwise when its input has ended, with status 5 on an
\* evaluation error.
ShStageExits(i) ==
    /\ UNCHANGED storeVars
    /\ pc = "sh"
    /\ i \in 2..Len(stages)
    /\ stages[i].state = "running"
    /\ LET compiles == JqCompile(jq_expr).ok IN
        /\ IF i = 3 \/ (i = 4 /\ compiles)
           THEN stages[i - 1].state # "running" ELSE TRUE
        /\ stages' = [stages EXCEPT
              ![i].state = "exited",
              ![i].status = IF i < 4 THEN 0
                            ELSE IF ~compiles THEN 3
                            ELSE IF RunFilter(vault, jq_expr).ok THEN 0 ELSE 5]
    /\ UNCHANGED <<query, vault, calls, entry, pc, pos, tokens, parsed, jq_expr,
                   jqOut, loaded, nativeRes, shellRes, parVars, tagsRes>>

\* sh has waited for every command of the pipeline and exits with the status
\* of the last one
ShExits ==
    /\ UNCHANGED storeVars
    /\ pc = "sh"
    /\ stages[1].state = "running"
    /\ \A i \in 2..Len(stages) : stages[i].state = "exited"
    /\ stages' = [i \in 1..Len(stages) |->
                    IF i = 1
                    THEN [stages[1] EXCEPT !.state = "exited",
                                           !.status = stages[Len(stages)].status]
                    ELSE [stages[i] EXCEPT !.state = "reaped"]]
    /\ UNCHANGED <<query, vault, calls, entry, pc, pos, tokens, parsed, jq_expr,
                   jqOut, loaded, nativeRes, shellRes, parVars, tagsRes>>

\* output() has read sh's output to its end and waited for sh; query_notes
\* tests output.status.success()
OutputReturns ==
    /\ UNCHANGED storeVars
    /\ pc = "sh"
    /\ stages[1].state = "exited"
    /\ stages' = [stages EXCEPT ![1].state = "reaped"]
    /\ IF stages[1].status = 0
       THEN /\ jqOut' = RunFilter(vault, jq_expr).notes
            /\ pc' = "output"
            /\ UNCHANGED <<entry, shellRes>>
       ELSE /\ shellRes' = RErr("Query pipeline failed")
            /\ pc' = "idle"
            /\ entry' = "none"
            /\ UNCHANGED jqOut
    /\ UNCHANGED <<query, vault, calls, pos, tokens, parsed, jq_expr, loaded,
                   nativeRes, parVars, tagsRes>>

PipeNext ==
    \/ StartCall
    \/ TokenizeStep
    \/ TokenizeReturn
    \/ Parse
    \/ Compile
    \/ ShStart
    \/ \E i \in 1..Len(stages) : ShStageExits(i)
    \/ ShExits
    \/ OutputReturns
    \/ ReadOutput
    \/ StartTags
    \/ TagsSpawn
    \/ TagsSpawnFails
    \/ \E i \in 1..Len(stages) : \E kind \in ExitKinds : TagsStageExits(i, kind)
    \/ TagsWaitPrev
    \/ TagsWaitFinal

PipeSpec == PipeInit /\ [][PipeNext]_vars

-----------------------------------------------------------------------------
(* C18 *)

AllReaped == \A i \in 1..Len(stages) : stages[i].state = "reaped"

-----------------------------------------------------------------------------
(* Several calls in a row: between two calls the caller may pass another    *)
(* query and the vault may change.                                          *)

MaxCalls == 3

RECURSIVE CallSeqs(_)
CallSeqs(n) ==
    IF n = 0 THEN {<<>>}
    ELSE {Append(cs, e) : cs \in CallSeqs(n - 1), e \in {"shell", "native"}}

SeqQueries ==
    {CondText(S_tag, <<"=">>, V_CLI), Q_March, CondText(S_tag, <<"!">>, V_CLI),
     S_tag}

SeqInit ==
    /\ board_file = NoFile
    /\ workspace_file = NoFile
    /\ last = NoCall
    /\ query \in SeqQueries
    /\ vault \in Vaults
    /\ calls \in UNION {CallSeqs(n) : n \in 1..MaxCalls}
    /\ entry = "none"
    /\ pc = "idle"
    /\ pos = 1
    /\ tokens = <<>>
    /\ parsed = NoParse
    /\ jq_expr = <<>>
    /\ jqOut = <<>>
    /\ loaded = <<>>
    /\ nativeRes = NoResult
    /\ shellRes = NoResult
    /\ work = <<>>
    /\ workers = <<>>
    /\ stages = <<>>
    /\ tagsRes = NoResult

\* some call has returned and another is to come
BetweenCalls ==
    /\ pc = "idle"
    /\ calls # <<>>
    /\ nativeRes # NoResult \/ shellRes # NoResult

\* the caller passes another query text to the next call
NextQuery ==
    /\ UNCHANGED storeVars
    /\ BetweenCalls
    /\ query' \in SeqQueries \ {query}
    /\ UNCHANGED <<vault, calls, entry, pc, pos, tokens, parsed, jq_expr, jqOut,
                   loaded, nativeRes, shellRes, parVars, pipeVars>>

\* notes are written, changed or removed between two calls
EditVault ==
    /\ UNCHANGED storeVars
    /\ BetweenCalls
    /\ vault' \in Vaults \ {vault}
    /\ UNCHANGED <<query, calls, entry, pc, pos, tokens, parsed, jq_expr, jqOut,
                   loaded, nativeRes, shellRes, parVars, pipeVars>>

SeqNext == Next \/ NextQuery \/ EditVault

SeqSpec == SeqInit /\ [][SeqNext]_vars

-----------------------------------------------------------------------------
(* C20 *)

\* tokenize as a function of the whole text
RECURSIVE ScanFrom(_, _, _)
ScanFrom(input, p, toks) ==
    IF p > Len(input) THEN toks
    ELSE LET r == ScanStep(input, p, toks) IN
         IF r.pos = p THEN toks ELSE ScanFrom(input, r.pos, r.tokens)

\* what the entry point returns when it is the first call ever made
FirstRun(e, q, files) ==
    IF e = "native" THEN NativeOutcome(ScanFrom(q, 1, <<>>), files)
    ELSE ShellOutcome(ScanFrom(q, 1, <<>>), files)

\* C20: no state is kept between calls: whatever calls came before, the AST
\* parse_query builds is the one the text alone determines, and the result an
\* entry point returns is the one the same call gives when run first on the
\* query text and the corpus as they are now.
C20_CallsAreStateless ==
    [][/\ pc = "parse" => parsed' = parse_expression(ScanFrom(query, 1, <<>>), 1)
       /\ (pc # "idle" /\ pc' = "idle" /\ entry = "native")
             => nativeRes' = FirstRun("native", query, vault)
       /\ (pc # "idle" /\ pc' = "idle" /\ entry = "shell")
             => shellRes' = FirstRun("shell", query, vault)]_vars

\* a later call has answered another query on the changed vault, while the
\* result of an earlier call on the vault of the tests is still at hand
C20_Witness ==
    /\ BothReturned
    /\ vault = EdgeVault
    /\ query = Q_March
    /\ nativeRes = FirstRun("native", Q_March, EdgeVault)
    /\ Len(nativeRes.rows) = 2
    /\ shellRes = FirstRun("shell", CondText(S_tag, <<"=">>, V_CLI), TestVault)
    /\ Len(shellRes.rows) = 3

-----------------------------------------------------------------------------
(* C21 *)

\* C21: on the vault of the tests the query
\*   date >= "2025-03-01" and date <= "2025-03-31" and (tag = "rust" or not tag = "CLI")
\* returns exactly note2 and note3 from query_notes and from query_notes_native.
C21_ComplexQuerySelectsTwoAndThree ==
    (BothReturned /\ query = Q_Complex /\ vault = TestVault)
        => /\ shellRes.status = "ok"
           /\ nativeRes.status = "ok"
           /\ Range(shellRes.rows) = {PairOf(N2), PairOf(N3)}
           /\ Range(nativeRes.rows) = {PairOf(N2), PairOf(N3)}
           /\ Len(shellRes.rows) = 2
           /\ Len(nativeRes.rows) = 2

C21_Witness ==
    /\ BothReturned
    /\ query = Q_Complex
    /\ vault = TestVault
    /\ shellRes = ROk(<<PairOf(N2), PairOf(N3)>>)
    /\ nativeRes = ROk(<<PairOf(N2), PairOf(N3)>>)

-----------------------------------------------------------------------------
(* C22 *)

\* the query was accepted whole and uses only the six operators
WellFormed ==
    /\ parsed.ok
    /\ parsed.pos = Len(tokens) + 1
    /\ \A c \in ExprConds(parsed.expr) : c.op \in SixOps

\* C22: on a vault without notes every well-formed query returns Ok with no
\* row from query_notes and from query_notes_native.
C22_EmptyVaultGivesEmptyOk ==
    (BothReturned /\ vault = <<>> /\ WellFormed)
        => /\ shellRes = ROk(<<>>)
           /\ nativeRes = ROk(<<>>)

-----------------------------------------------------------------------------
(* C26 *)

\* the steps of an entry point that come after parse_query
AfterParse == {"compile", "pipeline", "output", "load", "filter"}

\* C26: both entry points parse first: a call is past parse_query only when
\* the query parsed, and when the query fails to parse both calls return the
\* parse error with no filter compiled, no pipeline output and no note loaded.
C26_ParseComesFirst ==
    /\ pc \in AfterParse => parsed.ok
    /\ (BothReturned /\ ~parsed.ok)
          => /\ shellRes = RErr(parsed.err)
             /\ nativeRes = RErr(parsed.err)
             /\ jq_expr = <<>>
             /\ jqOut = <<>>
             /\ loaded = <<>>

C26_Witness ==
    /\ BothReturned
    /\ ~parsed.ok
    /\ vault = TestVault
    /\ tokens # <<>>
    /\ shellRes.status = "err"
    /\ nativeRes.status = "err"

-----------------------------------------------------------------------------
(* Queries whose string literal holds a single quote.                       *)

V_ab == <<"a", "b">>
V_a_b == <<"a", "'", "b">>
V_a__b == <<"a", "'", "'", "b">>
QuoteValues == {V_ab, V_a_b, V_a__b, V_CLI}

N7 == NoteFile(NotePath("7"), NoteStem("7"), TRUE, NoteTitle(<<"A","b">>),
               TRUE, Date2025(<<"0","3">>, <<"1","5">>), <<V_ab>>)
N8 == NoteFile(NotePath("8"), NoteStem("8"), TRUE, NoteTitle(<<"Q">>),
               TRUE, Date2025(<<"0","3">>, <<"1","5">>), <<V_a__b, V_a_b>>)
QuoteVault == <<N1, N7, N8>>

QuoteQueries ==
    {CondText(f, o, v) : f \in {S_tag, S_date}, o \in {<<"=">>, <<"!", "=">>},
                         v \in QuoteValues}
    \cup {JoinWords(<<W_not, CondText(S_tag, <<"=">>, v)>>) : v \in QuoteValues}

QuoteInit ==
    /\ board_file = NoFile
    /\ workspace_file = NoFile
    /\ last = NoCall
    /\ query \in QuoteQueries
    /\ vault \in {QuoteVault, TestVault}
    /\ calls = <<"shell", "native">>
    /\ entry = "none"
    /\ pc = "idle"
    /\ pos = 1
    /\ tokens = <<>>
    /\ parsed = NoParse
    /\ jq_expr = <<>>
    /\ jqOut = <<>>
    /\ loaded = <<>>
    /\ nativeRes = NoResult
    /\ shellRes = NoResult
    /\ work = <<>>
    /\ workers = <<>>
    /\ stages = <<>>
    /\ tagsRes = NoResult

QuoteSpec == QuoteInit /\ [][Next]_vars

-----------------------------------------------------------------------------
(* C30 *)

\* C30: the filter text that query_notes puts between single quotes on the
\* sh command line holds no single quote, so sh reads it as one argument of
\* jq, unchanged.
C30_FilterHasNoSingleQuote ==
    pc \in {"pipeline", "output"}
        => /\ "'" \notin Range(jq_expr)
           /\ ShArgument(jq_expr) = [ok |-> TRUE, arg |-> jq_expr]

-----------------------------------------------------------------------------
(* get_all_tags with the data that flows through its pipes.  Every stage    *)
(* writes to a pipe of bounded capacity; a write to a full pipe blocks.     *)
(* The read end of stage k's pipe is held by the parent from the spawn of   *)
(* stage k until run_pipeline_stage for stage k+1 returns (it is stored in  *)
(* the Command of stage k+1, dropped at the end of the function), and by    *)
(* stage k+1 while it runs.  Only wait_with_output on the last stage reads  *)
(* a pipe in the parent.                                                    *)

PipeCap == 1        \* lines a pipe holds
MaxVolume == 3      \* lines the first stage finds in the vault

\* The lines of a tag block as the stages treat them: stage 2 drops the
\* `tags:` line ("head"), stage 3 drops a line left empty ("blank"), stage 4
\* drops a line of hyphens only ("dashes"), and a "tag" line passes all.
LineKinds == {"head", "blank", "dashes", "tag"}

\* stage i writes the line it has read
Keeps(i, line) ==
    IF i = 2 THEN line # "head"
    ELSE IF i = 3 THEN line # "blank"
    ELSE line # "dashes"

RECURSIVE LinesUpTo(_)
LinesUpTo(n) ==
    IF n = 0 THEN {<<>>}
    ELSE LinesUpTo(n - 1)
            \cup {Append(ls, k) : ls \in {l \in LinesUpTo(n - 1) : Len(l) = n - 1},
                                  k \in LineKinds}

\* a stage with the lines `todo` still to write (first stage) and the lines
\* `out` waiting in the pipe on its stdout
FlowProc(todo) == Proc("rg") @@ [todo |-> todo, out |-> <<>>]

FlowInit ==
    /\ board_file = NoFile
    /\ workspace_file = NoFile
    /\ last = NoCall
    /\ query = <<>>
    /\ vault = TestVault
    /\ calls = <<"tags">>
    /\ entry = "none"
    /\ pc = "idle"
    /\ pos = 1
    /\ tokens = <<>>
    /\ parsed = NoParse
    /\ jq_expr = <<>>
    /\ jqOut = <<>>
    /\ loaded = <<>>
    /\ nativeRes = NoResult
    /\ shellRes = NoResult
    /\ work = <<>>
    /\ workers = <<>>
    /\ stages = <<>>
    /\ tagsRes = NoResult

\* the parent holds the read end of stage i's pipe
ParentHolds(i) ==
    /\ entry = "tags"
    /\ \/ i = Len(stages)
       \/ i = Len(stages) - 1 /\ pc = "wait_prev"

\* some process holds the read end of stage i's pipe
HasReader(i) ==
    IF ParentHolds(i) THEN TRUE
    ELSE IF i < Len(stages) THEN stages[i + 1].state = "running"
    ELSE FALSE

\* stage i has data it is about to write
HasInput(i) ==
    IF i = 1 THEN stages[1].todo # <<>> ELSE stages[i - 1].out # <<>>

\* stage i has read its input to the end
AtEndOfInput(i) ==
    IF i = 1 THEN stages[1].todo = <<>>
    ELSE stages[i - 1].state # "running" /\ stages[i - 1].out = <<>>

\* run_pipeline_stage: command.spawn() succeeds
FlowSpawn ==
    /\ UNCHANGED storeVars
    /\ pc = "spawn"
    /\ Len(stages) < NumStages
    /\ \E ls \in IF stages = <<>> THEN LinesUpTo(MaxVolume) ELSE {<<>>} :
          stages' = Append(stages, FlowProc(ls))
    /\ pc' = IF stages = <<>> THEN "spawn" ELSE "wait_prev"
    /\ UNCHANGED <<query, vault, calls, entry, pos, tokens, parsed, jq_expr,
                   jqOut, loaded, nativeRes, shellRes, parVars, tagsRes>>

\* the first rg writes a line of what it found to its pipe
FlowProduce ==
    /\ UNCHANGED storeVars
    /\ stages # <<>>
    /\ stages[1].state = "running"
    /\ stages[1].todo # <<>>
    /\ Len(stages[1].out) < PipeCap
    /\ stages' = [stages EXCEPT ![1].todo = Tail(@),
                                ![1].out = Append(@, Head(stages[1].todo))]
    /\ UNCHANGED <<query, vault, calls, entry, pc, pos, tokens, parsed, jq_expr,
                   jqOut, loaded, nativeRes, shellRes, parVars, tagsRes>>

\* a later rg reads a line from its stdin and writes it to its pipe, or
\* drops it when its pattern does not select it
FlowTransfer(i) ==
    /\ UNCHANGED storeVars
    /\ i \in 2..Len(stages)
    /\ stages[i].state = "running"
    /\ stages[i - 1].out # <<>>
    /\ LET line == Head(stages[i - 1].out) IN
        /\ Keeps(i, line) => Len(stages[i].out) < PipeCap
        /\ stages' = [stages EXCEPT
              ![i - 1].out = Tail(@),
              ![i].out = IF Keeps(i, line) THEN Append(@, line) ELSE @]
    /\ UNCHANGED <<query, vault, calls, entry, pc, pos, tokens, parsed, jq_expr,
                   jqOut, loaded, nativeRes, shellRes, parVars, tagsRes>>

\* a stage ends: with "normal" once it has read its input to the end, with
\* "error" at any time
FlowStageExits(i, kind) ==
    /\ UNCHANGED storeVars
    /\ i \in 1..Len(stages)
    /\ stages[i].state = "running"
    /\ kind \in {"normal", "error"}
    /\ IF kind = "normal" THEN AtEndOfInput(i) ELSE TRUE
    /\ stages' = [stages EXCEPT ![i] = Exited(stages[i], kind, TRUE)]
    /\ UNCHANGED <<query, vault, calls, entry, pc, pos, tokens, parsed, jq_expr,
                   jqOut, loaded, nativeRes, shellRes, parVars, tagsRes>>

\* a stage writes to a pipe whose read end nobody holds and ends on the
\* broken pipe
FlowBrokenPipe(i) ==
    /\ UNCHANGED storeVars
    /\ i \in 1..Len(stages)
    /\ stages[i].state = "running"
    /\ HasInput(i)
    /\ ~HasReader(i)
    /\ stages' = [stages EXCEPT ![i] = Exited(stages[i], "error", TRUE)]
    /\ UNCHANGED <<query, vault, calls, entry, pc, pos, tokens, parsed, jq_expr,
                   jqOut, loaded, nativeRes, shellRes, parVars, tagsRes>>

\* stage4_cmd.wait_with_output() reads a line of the last stage's output
FlowDrain ==
    /\ UNCHANGED storeVars
    /\ pc = "wait_final"
    /\ stages[NumStages].out # <<>>
    /\ stages' = [stages EXCEPT ![NumStages].out = Tail(@)]
    /\ UNCHANGED <<query, vault, calls, entry, pc, pos, tokens, parsed, jq_expr,
                   jqOut, loaded, nativeRes, shellRes, parVars, tagsRes>>

\* stage4_cmd.wait_with_output() has read the output to its end
FlowWaitFinal ==
    /\ pc = "wait_final"
    /\ stages[NumStages].out = <<>>
    /\ TagsWaitFinal

FlowNext ==
    \/ StartTags
    \/ FlowSpawn
    \/ FlowProduce
    \/ \E i \in 1..Len(stages) : FlowTransfer(i)
    \/ \E i \in 1..Len(stages) : \E kind \in {"normal", "error"} :
          FlowStageExits(i, kind)
    \/ \E i \in 1..Len(stages) : FlowBrokenPipe(i)
    \/ FlowDrain
    \/ TagsWaitPrev
    \/ FlowWaitFinal

\* the steps a process takes whenever it can; an "error" end is a fault
\* that may or may not happen
FlowProgress ==
    \/ StartTags
    \/ FlowSpawn
    \/ FlowProduce
    \/ \E i \in 1..Len(stages) : FlowTransfer(i)
    \/ \E i \in 1..Len(stages) : FlowStageExits(i, "normal")
    \/ \E i \in 1..Len(stages) : FlowBrokenPipe(i)
    \/ FlowDrain
    \/ TagsWaitPrev
    \/ FlowWaitFinal

\* every process that can take a step eventually takes one
FlowSpec == FlowInit /\ [][FlowNext]_vars /\ WF_vars(FlowProgress)

-----------------------------------------------------------------------------
(* C27 *)

\* C27: the pipeline of get_all_tags always terminates: get_all_tags returns
\* and every stage it started ends.
C27_TagsPipelineTerminates ==
    <>(/\ entry = "none"
       /\ calls = <<>>
       /\ \A i \in 1..Len(stages) : stages[i].state # "running")

-----------------------------------------------------------------------------
(* Text helpers shared by the workspace and kanban files (str::trim,        *)
(* str::split, slice::join)                                                 *)

IsSpace(c) == c \in {" ", "\t", "\n", "\r"}

RECURSIVE TrimStart(_)
TrimStart(s) ==
    IF s # <<>> /\ IsSpace(Head(s)) THEN TrimStart(Tail(s)) ELSE s

RECURSIVE TrimEnd(_)
TrimEnd(s) ==
    IF s # <<>> /\ IsSpace(s[Len(s)]) THEN TrimEnd(SubSeq(s, 1, Len(s) - 1))
    ELSE s

Trim(s) == TrimEnd(TrimStart(s))

\* the index of the first c in s at or after p, or 0
RECURSIVE IndexFrom(_, _, _)
IndexFrom(s, c, p) ==
    IF p > Len(s) THEN 0
    ELSE IF s[p] = c THEN p
    ELSE IndexFrom(s, c, p + 1)

\* s.split(c): the pieces between the occurrences of c, empty ones included
RECURSIVE Split(_, _)
Split(s, c) ==
    LET p == IndexFrom(s, c, 1) IN
    IF p = 0 THEN <<s>>
    ELSE <<SubSeq(s, 1, p - 1)>> \o Split(SubSeq(s, p + 1, Len(s)), c)

\* parts.join(sep)
RECURSIVE Join(_, _)
Join(parts, sep) ==
    IF parts = <<>> THEN <<>>
    ELSE IF Len(parts) = 1 THEN parts[1]
    ELSE parts[1] \o sep \o Join(Tail(parts), sep)

StartsWith(s, prefix) ==
    Len(s) >= Len(prefix) /\ SubSeq(s, 1, Len(prefix)) = prefix

\* a file with the given lines
FileOf(ls) == [exists |-> TRUE, lines |-> ls]

-----------------------------------------------------------------------------
(* Workspaces (src/workspaces/crud.rs): one workspace file, one path a line *)

P_a     == <<"a", ".", "m", "d">>
P_b     == <<"b", ".", "m", "d">>
P_c     == <<"c", ".", "m", "d">>
P_sp_a  == <<" ", "a", ".", "m", "d">>      \* a note whose name starts with a space
P_a_sp  == <<"a", ".", "m", "d", " ">>      \* no such file
P_txt   == <<"c", ".", "t", "x", "t">>
P_gone  == <<"x", ".", "m", "d">>           \* no such file

\* the files of the vault directory
VaultFileNames == {P_a, P_b, P_c, P_sp_a, P_txt}

\* the paths callers pass
WsPaths == {P_a, P_b, P_c, P_sp_a, P_a_sp, P_txt, P_gone}

\* Path::extension: the text after the last dot of the file name
RECURSIVE Extension(_)
Extension(p) ==
    LET d == IndexFrom(p, ".", 1) IN
    IF d = 0 THEN p ELSE Extension(SubSeq(p, d + 1, Len(p)))

\* validate_file_path for a relative path: Ok or the error
validate_file_path(file_path) ==
    IF file_path \notin VaultFileNames THEN "does not exist in the vault"
    ELSE IF IndexFrom(file_path, ".", 1) = 0 THEN "has no extension"
    ELSE IF Extension(file_path) \notin {<<"m", "d">>,
                                         <<"m","a","r","k","d","o","w","n">>}
    THEN "is not a markdown file"
    ELSE "ok"

\* is_file_in_workspace
is_file_in_workspace(ls, file_path) ==
    \E i \in 1..Len(ls) : Trim(ls[i]) = Trim(file_path)

\* the lines remove_from_workspace keeps
RECURSIVE KeptLines(_, _)
KeptLines(ls, file_path) ==
    IF ls = <<>> THEN <<>>
    ELSE IF Trim(Head(ls)) = Trim(file_path) THEN KeptLines(Tail(ls), file_path)
    ELSE <<Head(ls)>> \o KeptLines(Tail(ls), file_path)

WsCall(op, file_path, ok) ==
    [op |-> op, path |-> file_path, ok |-> ok, before |-> workspace_file]

\* what create_workspace does to the file and returns
CreateOutcome(file_path) ==
    IF validate_file_path(file_path) # "ok" \/ workspace_file.exists
    THEN [ok |-> FALSE, file |-> workspace_file]
    ELSE [ok |-> TRUE, file |-> FileOf(<<file_path>>)]

create_workspace(file_path) ==
    /\ workspace_file' = CreateOutcome(file_path).file
    /\ last' = WsCall("create", file_path, CreateOutcome(file_path).ok)
    /\ UNCHANGED <<query, vault, calls, entry, pc, pos, tokens, parsed, jq_expr,
                   jqOut, loaded, nativeRes, shellRes, parVars, pipeVars,
                   board_file>>

append_to_workspace(file_path) ==
    /\ IF validate_file_path(file_path) # "ok"
       THEN /\ last' = WsCall("append", file_path, FALSE)
            /\ UNCHANGED workspace_file
       ELSE IF ~workspace_file.exists
       THEN /\ workspace_file' = CreateOutcome(file_path).file
            /\ last' = WsCall("append", file_path, CreateOutcome(file_path).ok)
       ELSE IF is_file_in_workspace(workspace_file.lines, file_path)
       THEN /\ last' = WsCall("append", file_path, FALSE)
            /\ UNCHANGED workspace_file
       ELSE /\ workspace_file' = FileOf(Append(workspace_file.lines, file_path))
            /\ last' = WsCall("append", file_path, TRUE)
    /\ UNCHANGED <<query, vault, calls, entry, pc, pos, tokens, parsed, jq_expr,
                   jqOut, loaded, nativeRes, shellRes, parVars, pipeVars,
                   board_file>>

remove_from_workspace(file_path) ==
    /\ IF ~workspace_file.exists
       THEN /\ last' = WsCall("remove", file_path, FALSE)
            /\ UNCHANGED workspace_file
       ELSE IF ~is_file_in_workspace(workspace_file.lines, file_path)
       THEN /\ last' = WsCall("remove", file_path, FALSE)
            /\ UNCHANGED workspace_file
       ELSE /\ workspace_file' = FileOf(KeptLines(workspace_file.lines, file_path))
            /\ last' = WsCall("remove", file_path, TRUE)
    /\ UNCHANGED <<query, vault, calls, entry, pc, pos, tokens, parsed, jq_expr,
                   jqOut, loaded, nativeRes, shellRes, parVars, pipeVars,
                   board_file>>

WsInit ==
    /\ board_file = NoFile
    /\ workspace_file = NoFile
    /\ last = NoCall
    /\ query = <<>>
    /\ vault = <<>>
    /\ calls = <<>>
    /\ entry = "none"
    /\ pc = "idle"
    /\ pos = 1
    /\ tokens = <<>>
    /\ parsed = NoParse
    /\ jq_expr = <<>>
    /\ jqOut = <<>>
    /\ loaded = <<>>
    /\ nativeRes = NoResult
    /\ shellRes = NoResult
    /\ work = <<>>
    /\ workers = <<>>
    /\ stages = <<>>
    /\ tagsRes = NoResult

WsNext ==
    \/ \E p \in WsPaths : create_workspace(p)
    \/ \E p \in WsPaths : append_to_workspace(p)
    \/ \E p \in WsPaths : remove_from_workspace(p)

WsSpec == WsInit /\ [][WsNext]_vars

-----------------------------------------------------------------------------
(* C25 *)

\* the lines of ls other than those equal to file_path, in order
LinesWithout(ls, file_path) == SelectSeq(ls, LAMBDA l : l # file_path)

NoLineTwice(ls) == \A i, j \in 1..Len(ls) : ls[i] = ls[j] => i = j

\* C25: the workspace file lists no path twice; append_to_workspace of a note
\* of the vault adds the path's line after the earlier lines, and fails
\* without changing the file when the path is listed; remove_from_workspace
\* deletes the lines equal to the path and keeps the others in order, and
\* fails without changing the file when the path is not listed.
C25_WorkspaceListsPathsOnce ==
    /\ NoLineTwice(workspace_file.lines)
    /\ (last.op = "append" /\ last.before.exists)
          => IF last.path \in Range(last.before.lines)
             THEN ~last.ok /\ workspace_file = last.before
             ELSE IF validate_file_path(last.path) = "ok"
             THEN /\ last.ok
                  /\ workspace_file.lines = Append(last.before.lines, last.path)
             ELSE ~last.ok /\ workspace_file = last.before
    /\ (last.op = "remove" /\ last.before.exists)
          => IF last.path \in Range(last.before.lines)
             THEN /\ last.ok
                  /\ workspace_file.lines
                        = LinesWithout(last.before.lines, last.path)
             ELSE ~last.ok /\ workspace_file = last.before

-----------------------------------------------------------------------------
(* Kanban boards (src/kanban/crud.rs): a task as a line of the board file   *)

None == [some |-> FALSE, v |-> <<>>]
Some(v) == [some |-> TRUE, v |-> v]

\* Local::now().format("%Y-%m-%d")
Today == Date2025(<<"0","3">>, <<"1","5">>)

\* struct Task; metadata is a set of <<key, value>> pairs, one per key
Task(id, title, priority, tags, created, column, metadata) ==
    [id |-> id, title |-> title, priority |-> priority, tags |-> tags,
     created |-> created, column |-> column, metadata |-> metadata]

\* Task::new
TaskNew(id, title, column) ==
    Task(id, title, None, <<>>, Some(Today), column, {})

S_Priority == <<"P","r","i","o","r","i","t","y">>
S_Tags     == <<"T","a","g","s">>
S_Created  == <<"C","r","e","a","t","e","d">>

\* the entries of a HashMap one after the other; the order is the map's own,
\* and no task below holds more than one entry
RECURSIVE MetadataText(_)
MetadataText(md) ==
    IF md = {} THEN <<>>
    ELSE LET e == CHOOSE x \in md : TRUE IN
         (IF e[1] \in {S_Priority, S_Tags, S_Created} THEN <<>>
          ELSE <<" ", "|", " ">> \o e[1] \o <<":", " ">> \o e[2])
            \o MetadataText(md \ {e})

\* Task::to_string
to_string(t) ==
    <<"*", " ", "[", "I", "D", ":">> \o t.id \o <<"]", " ">> \o t.title
    \o (IF t.priority.some
        THEN <<" ", "|", " ">> \o S_Priority \o <<":", " ">> \o t.priority.v
        ELSE <<>>)
    \o (IF t.tags # <<>>
        THEN <<" ", "|", " ">> \o S_Tags \o <<":", " ">> \o Join(t.tags, <<",", " ">>)
        ELSE <<>>)
    \o (IF t.created.some
        THEN <<" ", "|", " ">> \o S_Created \o <<":", " ">> \o t.created.v
        ELSE <<>>)
    \o MetadataText(t.metadata)

\* the leftmost match of \[ID:([^\]]+)\] at or after p: [from, to] of the
\* brackets, or from = 0
RECURSIVE IdMatch(_, _)
IdMatch(line, p) ==
    IF p + 5 > Len(line) THEN [from |-> 0, to |-> 0]
    ELSE IF SubSeq(line, p, p + 3) = <<"[", "I", "D", ":">>
            /\ line[p + 4] # "]"
            /\ IndexFrom(line, "]", p + 5) # 0
    THEN [from |-> p, to |-> IndexFrom(line, "]", p + 5)]
    ELSE IdMatch(line, p + 1)

RECURSIVE SkipSpaces(_, _)
SkipSpaces(line, p) ==
    IF p <= Len(line) /\ IsSpace(line[p]) THEN SkipSpaces(line, p + 1) ELSE p

TrimAll(parts) == [i \in 1..Len(parts) |-> Trim(parts[i])]

\* task.metadata.insert(key, value)
MetadataInsert(md, key, value) ==
    {e \in md : e[1] # key} \cup {<<key, value>>}

\* the loop of from_string over the `|`-separated items after the title
RECURSIVE ApplyItems(_, _)
ApplyItems(task, items) ==
    IF items = <<>> THEN task
    ELSE
        LET parts == Split(Head(items), ":")
            key == Trim(parts[1])
            value == Trim(Join(Tail(parts), <<":">>))
            lower == to_lowercase(key)
            next ==
                IF Len(parts) < 2 THEN task
                ELSE IF lower = to_lowercase(S_Priority)
                THEN [task EXCEPT !.priority = Some(value)]
                ELSE IF lower = to_lowercase(S_Tags)
                THEN [task EXCEPT !.tags = TrimAll(Split(value, ","))]
                ELSE IF lower = to_lowercase(S_Created)
                THEN [task EXCEPT !.created = Some(value)]
                ELSE [task EXCEPT
                        !.metadata = MetadataInsert(task.metadata, key, value)]
        IN ApplyItems(next, Tail(items))

\* Task::from_string: [ok, task]
from_string(line, column) ==
    LET m == IdMatch(line, 1) IN
    IF m.from = 0 THEN [ok |-> FALSE, task |-> TaskNew(<<>>, <<>>, column)]
    ELSE
        LET id == SubSeq(line, m.from + 4, m.to - 1)
            start == SkipSpaces(line, m.to + 1)
            bar == IndexFrom(line, "|", start)
            title == Trim(SubSeq(line, start,
                                 IF bar = 0 THEN Len(line) ELSE bar - 1))
            metadata_str == Trim(Join(Tail(Split(line, "|")), <<"|">>))
        IN [ok |-> TRUE,
            task |-> ApplyItems(Task(id, title, None, <<>>, None, column, {}),
                                Split(metadata_str, "|"))]

-----------------------------------------------------------------------------
(* Kanban boards: the board file read into a KanbanBoard and written back   *)

\* struct KanbanBoard; tasks maps a column name to the tasks of the column
KanbanBoard(name, date, description, columns, tasks) ==
    [name |-> name, date |-> date, description |-> description,
     columns |-> columns, tasks |-> tasks]

BoardName == <<"B">>
NoTasks == [c \in {} |-> <<>>]

S_DateKey == <<"D","a","t","e",":">>
S_DescKey == <<"D","e","s","c","r","i","p","t","i","o","n",":">>

\* ^Key:\s*(.+)$ on a trimmed line: [ok, v]
KeyLine(line, key) ==
    LET start == SkipSpaces(line, Len(key) + 1) IN
    IF StartsWith(line, key) /\ start <= Len(line)
    THEN [ok |-> TRUE, v |-> Trim(SubSeq(line, start, Len(line)))]
    ELSE [ok |-> FALSE, v |-> <<>>]

\* ^==\s*([^=]+)\s*==$ on a trimmed line: [ok, v]
ColumnLine(line) ==
    LET middle == SubSeq(line, 3, Len(line) - 2) IN
    IF /\ Len(line) >= 5
       /\ SubSeq(line, 1, 2) = <<"=", "=">>
       /\ SubSeq(line, Len(line) - 1, Len(line)) = <<"=", "=">>
       /\ IndexFrom(middle, "=", 1) = 0
    THEN [ok |-> TRUE, v |-> Trim(middle)]
    ELSE [ok |-> FALSE, v |-> <<>>]

\* ^\*\s+.*$ on a trimmed line
IsTaskLine(line) == Len(line) >= 2 /\ line[1] = "*" /\ IsSpace(line[2])

\* the loop of read_board over the lines of the file
RECURSIVE ReadLines(_, _, _)
ReadLines(board, current_column, lines) ==
    IF lines = <<>> THEN board
    ELSE
        LET trimmed_line == Trim(Head(lines))
            rest == Tail(lines)
            date == KeyLine(trimmed_line, S_DateKey)
            desc == KeyLine(trimmed_line, S_DescKey)
            col == ColumnLine(trimmed_line)
        IN
        IF trimmed_line = <<>> \/ Head(trimmed_line) = "#"
        THEN ReadLines(board, current_column, rest)
        ELSE IF date.ok
        THEN ReadLines([board EXCEPT !.date = date.v], current_column, rest)
        ELSE IF desc.ok
        THEN ReadLines([board EXCEPT !.description = desc.v], current_column, rest)
        ELSE IF col.ok
        THEN ReadLines([board EXCEPT
                          !.columns = Append(@, col.v),
                          !.tasks = (col.v :> <<>>) @@ @],
                       Some(col.v), rest)
        ELSE IF current_column.some /\ IsTaskLine(trimmed_line)
        THEN LET r == from_string(trimmed_line, current_column.v) IN
             IF r.ok
             THEN ReadLines([board EXCEPT
                               !.tasks[current_column.v] = Append(@, r.task)],
                            current_column, rest)
             ELSE ReadLines(board, current_column, rest)
        ELSE ReadLines(board, current_column, rest)

\* read_board: [ok, board]
read_board(file) ==
    [ok |-> file.exists,
     board |-> ReadLines(KanbanBoard(BoardName, <<>>, <<>>, <<>>, NoTasks),
                         None, file.lines)]

HeaderLines(name, date, description) ==
    <<<<"#"," ","T","U","I"," ","K","a","n","b","a","n"," ","B","o","a","r","d",
        ":"," ">> \o name,
      <<"D","a","t","e",":"," ">> \o date,
      <<"D","e","s","c","r","i","p","t","i","o","n",":"," ">> \o description,
      <<>>>>

ColumnHeader(column) == <<"=", "=", " ">> \o column \o <<" ", "=", "=">>

\* the lines the tasks of a column take in the file
RECURSIVE TaskLines(_)
TaskLines(tasks) ==
    IF tasks = <<>> THEN <<>>
    ELSE Split(to_string(Head(tasks)), "\n") \o TaskLines(Tail(tasks))

RECURSIVE ColumnSections(_, _)
ColumnSections(board, columns) ==
    IF columns = <<>> THEN <<>>
    ELSE <<ColumnHeader(Head(columns))>>
            \o (IF Head(columns) \in DOMAIN board.tasks
                THEN TaskLines(board.tasks[Head(columns)]) ELSE <<>>)
            \o <<<<>>>>
            \o ColumnSections(board, Tail(columns))

\* save_board: the file it writes
save_board(board) ==
    FileOf(HeaderLines(board.name, board.date, board.description)
            \o ColumnSections(board, board.columns))

RECURSIVE ColumnHeaders(_)
ColumnHeaders(columns) ==
    IF columns = <<>> THEN <<>>
    ELSE <<ColumnHeader(Head(columns))>> \o ColumnHeaders(Tail(columns))

\* every task of the board, column by column in the order of board.columns
RECURSIVE TasksIn(_, _)
TasksIn(board, cols) ==
    IF cols = {} THEN <<>>
    ELSE LET c == CHOOSE x \in cols : TRUE IN
         board.tasks[c] \o TasksIn(board, cols \ {c})

AllTasks(board) == TasksIn(board, DOMAIN board.tasks)

DigitChars == <<"0","1","2","3","4","5","6","7","8","9">>

\* usize::to_string
RECURSIVE NatToStr(_)
NatToStr(n) ==
    IF n < 10 THEN <<DigitChars[n + 1]>>
    ELSE NatToStr(n \div 10) \o <<DigitChars[(n % 10) + 1]>>

RECURSIVE DigitsValue(_)
DigitsValue(s) ==
    IF s = <<>> THEN 0
    ELSE 10 * DigitsValue(SubSeq(s, 1, Len(s) - 1))
            + (CHOOSE d \in 0..9 : DigitChars[d + 1] = s[Len(s)])

\* str::parse::<usize>: [ok, n]
ParseUsize(s) ==
    LET body == IF s # <<>> /\ Head(s) = "+" THEN Tail(s) ELSE s IN
    IF body # <<>> /\ \A i \in 1..Len(body) : body[i] \in Digits
    THEN [ok |-> TRUE, n |-> DigitsValue(body)]
    ELSE [ok |-> FALSE, n |-> 0]

RECURSIVE MaxId(_)
MaxId(tasks) ==
    IF tasks = <<>> THEN 0
    ELSE LET p == ParseUsize(Head(tasks).id)
             m == MaxId(Tail(tasks))
         IN IF p.ok /\ p.n > m THEN p.n ELSE m

\* generate_next_id
generate_next_id(board) == NatToStr(MaxId(AllTasks(board)) + 1)

\* the columns whose task list holds a task with the id
ColumnsHolding(board, task_id) ==
    {c \in DOMAIN board.tasks :
        \E i \in 1..Len(board.tasks[c]) : board.tasks[c][i].id = task_id}

\* tasks.iter().position(|t| t.id == task_id)
PositionOf(tasks, task_id) ==
    CHOOSE i \in 1..Len(tasks) :
        /\ tasks[i].id = task_id
        /\ \A j \in 1..(i - 1) : tasks[j].id # task_id

\* tasks.remove(pos)
RemoveAt(tasks, i) == SubSeq(tasks, 1, i - 1) \o SubSeq(tasks, i + 1, Len(tasks))

Contains(seq, x) == \E i \in 1..Len(seq) : seq[i] = x

-----------------------------------------------------------------------------
(* Kanban boards: the operations, each one call from read_board to          *)
(* save_board                                                               *)

MaxTasks == 2       \* add_task is called while the board holds fewer tasks
MaxTaskId == 2      \* and while the next id is at most this

C_A == <<"A">>
C_B == <<"B">>
C_Z == <<"Z">>      \* never a column of the board

Title_plain == <<"a">>
Title_bar   == <<"a", "|", "b">>
Title_lines == <<"a", "\n", "*", " ", "[", "I", "D", ":", "1", "]", " ", "b">>

P_high == <<"h", "i">>
Tag_x  == <<"x">>

\* the (title, priority, tags) triples add_task is called with
AddInputs ==
    {<<Title_plain, Some(P_high), <<Tag_x>>>>,
     <<Title_bar, Some(P_high), <<Tag_x>>>>,
     <<Title_lines, Some(P_high), <<Tag_x>>>>}

\* the (title, column, priority, tags) options update_task is called with
UpdateInputs ==
    {<<Some(Title_lines), Some(C_B), None, None>>,
     <<None, None, Some(P_high), Some(<<Tag_x>>)>>}

TaskIds == {<<"1">>, <<"2">>}

KCall(op, args, ok, task) ==
    [op |-> op, args |-> args, ok |-> ok, task |-> task, before |-> board_file]

NoTask == TaskNew(<<>>, <<>>, <<>>)

KanbanFrame ==
    UNCHANGED <<query, vault, calls, entry, pc, pos, tokens, parsed, jq_expr,
                jqOut, loaded, nativeRes, shellRes, parVars, pipeVars,
                workspace_file>>

\* the board holds fewer than MaxTasks tasks and no id above MaxTaskId would
\* be handed out: the calls that add a task line are made only then
FewTasks ==
    LET tasks == AllTasks(read_board(board_file).board) IN
    Len(tasks) < MaxTasks /\ MaxId(tasks) < MaxTaskId

create_board(columns, description) ==
    /\ IF board_file.exists
       THEN /\ last' = KCall("create_board", <<columns>>, FALSE, NoTask)
            /\ UNCHANGED board_file
       ELSE /\ board_file' = FileOf(HeaderLines(BoardName, Today, description)
                                      \o ColumnHeaders(columns))
            /\ last' = KCall("create_board", <<columns>>, TRUE, NoTask)
    /\ KanbanFrame

add_task(title, column, priority, tags) ==
    /\ \E r \in {read_board(board_file)} :
       LET board == r.board
           task == [TaskNew(generate_next_id(board), title, column)
                        EXCEPT !.priority = priority, !.tags = tags]
           saved == [board EXCEPT !.tasks[column] = Append(@, task)]
       IN
       IF ~r.ok \/ ~Contains(board.columns, column)
       THEN /\ last' = KCall("add_task", <<title, column>>, FALSE, NoTask)
            /\ UNCHANGED board_file
       ELSE /\ FewTasks
            /\ board_file' = save_board(saved)
            /\ last' = KCall("add_task", <<title, column>>, TRUE, task)
    /\ KanbanFrame

get_task(task_id) ==
    /\ \E r \in {read_board(board_file)} :
       LET found == {t \in Range(AllTasks(r.board)) : t.id = task_id}
       IN
       IF ~r.ok \/ found = {}
       THEN last' = KCall("get_task", <<task_id>>, FALSE, NoTask)
       ELSE \E t \in found : last' = KCall("get_task", <<task_id>>, TRUE, t)
    /\ UNCHANGED board_file
    /\ KanbanFrame

update_task(task_id, title, column, priority, tags) ==
    /\ \E r \in {read_board(board_file)} :
       LET board == r.board
       IN
       IF ~r.ok \/ ColumnsHolding(board, task_id) = {}
       THEN /\ last' = KCall("update_task", <<task_id, column>>, FALSE, NoTask)
            /\ UNCHANGED board_file
       ELSE \E current_col \in ColumnsHolding(board, task_id) :
            LET pos1 == PositionOf(board.tasks[current_col], task_id)
                found == board.tasks[current_col][pos1]
                target_column == IF column.some THEN column.v ELSE current_col
                task == [found EXCEPT
                           !.title = IF title.some THEN title.v ELSE @,
                           !.priority = IF priority.some THEN priority ELSE @,
                           !.tags = IF tags.some THEN tags.v ELSE @,
                           !.column = target_column]
                removed == [board EXCEPT
                              !.tasks[current_col] = RemoveAt(@, pos1)]
            IN
            IF \/ column.some /\ ~Contains(board.columns, column.v)
               \/ target_column \notin DOMAIN board.tasks
            THEN /\ last' = KCall("update_task", <<task_id, column>>, FALSE, NoTask)
                 /\ UNCHANGED board_file
            ELSE /\ board_file' = save_board(
                        [removed EXCEPT !.tasks[target_column] = Append(@, task)])
                 /\ last' = KCall("update_task", <<task_id, column>>, TRUE, task)
    /\ KanbanFrame

move_task(task_id, to_column) ==
    update_task(task_id, None, Some(to_column), None, None)

delete_task(task_id) ==
    /\ \E r \in {read_board(board_file)} :
       LET board == r.board
       IN
       IF ~r.ok \/ ColumnsHolding(board, task_id) = {}
       THEN /\ last' = KCall("delete_task", <<task_id>>, FALSE, NoTask)
            /\ UNCHANGED board_file
       ELSE \E c \in ColumnsHolding(board, task_id) :
            /\ board_file' = save_board(
                  [board EXCEPT
                     !.tasks[c] = RemoveAt(@, PositionOf(board.tasks[c], task_id))])
            /\ last' = KCall("delete_task", <<task_id>>, TRUE, NoTask)
    /\ KanbanFrame

add_column(column_name) ==
    /\ \E r \in {read_board(board_file)} :
       LET board == r.board
       IN
       IF ~r.ok \/ Contains(board.columns, column_name)
       THEN /\ last' = KCall("add_column", <<column_name>>, FALSE, NoTask)
            /\ UNCHANGED board_file
       ELSE /\ board_file' = save_board(
                  [board EXCEPT !.columns = Append(@, column_name),
                                !.tasks = (column_name :> <<>>) @@ @])
            /\ last' = KCall("add_column", <<column_name>>, TRUE, NoTask)
    /\ KanbanFrame

\* task.column = target_col for every task moved
Retarget(tasks, target_col) ==
    [i \in 1..Len(tasks) |-> [tasks[i] EXCEPT !.column = target_col]]

\* board.tasks.remove(column_name)
WithoutKey(tasks, column_name) ==
    [c \in DOMAIN tasks \ {column_name} |-> tasks[c]]

remove_column(column_name, move_tasks_to) ==
    /\ \E r \in {read_board(board_file)} :
       LET board == r.board
           tasks_to_move == IF column_name \in DOMAIN board.tasks
                            THEN board.tasks[column_name] ELSE <<>>
           moved == IF tasks_to_move # <<>> /\ move_tasks_to.some
                       /\ move_tasks_to.v \in DOMAIN board.tasks
                    THEN [board EXCEPT
                            !.tasks[move_tasks_to.v] =
                                @ \o Retarget(tasks_to_move, move_tasks_to.v)]
                    ELSE board
       IN
       IF \/ ~r.ok
          \/ ~Contains(board.columns, column_name)
          \/ /\ tasks_to_move # <<>>
             /\ IF move_tasks_to.some
                THEN ~Contains(board.columns, move_tasks_to.v)
                ELSE TRUE
       THEN /\ last' = KCall("remove_column", <<column_name, move_tasks_to>>,
                             FALSE, NoTask)
            /\ UNCHANGED board_file
       ELSE /\ board_file' = save_board(
                  [moved EXCEPT
                     !.columns = SelectSeq(@, LAMBDA c : c # column_name),
                     !.tasks = WithoutKey(@, column_name)])
            /\ last' = KCall("remove_column", <<column_name, move_tasks_to>>,
                             TRUE, NoTask)
    /\ KanbanFrame

KanbanInit ==
    /\ board_file = NoFile
    /\ workspace_file = NoFile
    /\ last = NoCall
    /\ query = <<>>
    /\ vault = <<>>
    /\ calls = <<>>
    /\ entry = "none"
    /\ pc = "idle"
    /\ pos = 1
    /\ tokens = <<>>
    /\ parsed = NoParse
    /\ jq_expr = <<>>
    /\ jqOut = <<>>
    /\ loaded = <<>>
    /\ nativeRes = NoResult
    /\ shellRes = NoResult
    /\ work = <<>>
    /\ workers = <<>>
    /\ stages = <<>>
    /\ tagsRes = NoResult

\* the caller has taken the result of the previous call
KanbanReturn ==
    /\ last # NoCall
    /\ last' = NoCall
    /\ UNCHANGED board_file
    /\ KanbanFrame

\* one call at a time: the next call is made once the previous one returned
KanbanNext ==
    \/ /\ last = NoCall
       /\ create_board(<<C_A, C_B>>, <<"d">>)
    \/ /\ last = NoCall
       /\ \E inp \in AddInputs : \E c \in {C_A, C_Z} :
             add_task(inp[1], c, inp[2], inp[3])
    \/ /\ last = NoCall
       /\ \E id \in TaskIds : get_task(id)
    \/ /\ last = NoCall
       /\ \E id \in TaskIds : \E u \in UpdateInputs :
             /\ u[1].some => FewTasks
             /\ update_task(id, u[1], u[2], u[3], u[4])
    \/ /\ last = NoCall
       /\ \E id \in TaskIds : \E c \in {C_A, C_B, C_Z} : move_task(id, c)
    \/ /\ last = NoCall
       /\ \E id \in TaskIds : delete_task(id)
    \/ /\ last = NoCall
       /\ \E c \in {C_A, C_B} : add_column(c)
    \/ /\ last = NoCall
       /\ \E to \in {None, Some(C_A), Some(C_B), Some(C_Z)} :
             remove_column(C_A, to)
    \/ KanbanReturn

KanbanSpec == KanbanInit /\ [][KanbanNext]_vars

-----------------------------------------------------------------------------
(* Kanban boards: the claims                                                *)

\* the board the file holds now, and the board it held before the last call
BoardNow == read_board(board_file).board
BoardBefore == read_board(last.before).board

\* the five fields get_task and add_task are compared on
SameTask(t, u) ==
    /\ t.id = u.id
    /\ t.title = u.title
    /\ t.priority = u.priority
    /\ t.tags = u.tags
    /\ t.column = u.column

\* what get_task(task_id) can return from the board the file holds
GetTaskResults(task_id) == {t \in Range(AllTasks(BoardNow)) : t.id = task_id}

\* C23: a task stored on a board is read back unchanged: after add_task
\* returned a task, get_task with its id finds a task and every task it can
\* return has the id, title, priority, tags and column add_task returned
C23_TaskReadBackUnchanged ==
    (last.op = "add_task" /\ last.ok) =>
        /\ GetTaskResults(last.task.id) # {}
        /\ \A t \in GetTaskResults(last.task.id) : SameTask(t, last.task)


\* the tasks the removed column held before the last call
RemovedTasks ==
    IF last.args[1] \in DOMAIN BoardBefore.tasks
    THEN BoardBefore.tasks[last.args[1]] ELSE <<>>

\* the target column of the last remove_column is a column of the board
TargetExists ==
    IF last.args[2].some
    THEN Contains(BoardBefore.columns, last.args[2].v) ELSE FALSE

\* the tasks of a column of the saved board, none when the column is gone
SavedTasks(column) ==
    IF column \in DOMAIN BoardNow.tasks THEN BoardNow.tasks[column] ELSE <<>>

\* C29: remove_column never discards a task: with tasks in the column and no
\* target, or a target that is not a column, it fails and the file is
\* unchanged; when it succeeds every task of the removed column is in the
\* target column of the saved board and the task count is what it was
C29_RemoveColumnKeepsTasks ==
    last.op = "remove_column" =>
        /\ ~last.ok => board_file = last.before
        /\ (RemovedTasks # <<>> /\ ~TargetExists) => ~last.ok
        /\ last.ok =>
            /\ Len(AllTasks(BoardNow)) = Len(AllTasks(BoardBefore))
            /\ \A i \in 1..Len(RemovedTasks) :
                 \E t \in Range(SavedTasks(last.args[2].v)) :
                    /\ t.id = RemovedTasks[i].id
                    /\ t.title = RemovedTasks[i].title
                    /\ t.column = last.args[2].v


\* C28: no two tasks of the board have the same ID, whatever calls were made
\* on the board since create_board
C28_TaskIdsAreUnique ==
    \A i, j \in 1..Len(AllTasks(BoardNow)) :
        AllTasks(BoardNow)[i].id = AllTasks(BoardNow)[j].id => i = j


\* the tasks of a column of a board whose id is not task_id
OtherTasks(board, column, task_id) ==
    IF column \in DOMAIN board.tasks
    THEN SelectSeq(board.tasks[column], LAMBDA t : t.id # task_id) ELSE <<>>

\* C24: after update_task or move_task succeeded with a target column the
\* saved board lists the task in the target column and in no other, its
\* column field names the target, every other task is unchanged and the task
\* count is unchanged; with a target that is not a column the call fails and
\* the board file is unchanged
C24_UpdateMovesOnlyTheTask ==
    (last.op = "update_task" /\ last.args[2].some) =>
        /\ ~Contains(BoardBefore.columns, last.args[2].v) =>
              ~last.ok /\ board_file = last.before
        /\ last.ok =>
            /\ ColumnsHolding(BoardNow, last.args[1]) = {last.args[2].v}
            /\ last.task.column = last.args[2].v
            /\ \A t \in GetTaskResults(last.args[1]) : t.column = last.args[2].v
            /\ \A c \in DOMAIN BoardBefore.tasks \cup DOMAIN BoardNow.tasks :
                  OtherTasks(BoardNow, c, last.args[1])
                    = OtherTasks(BoardBefore, c, last.args[1])
            /\ Len(AllTasks(BoardNow)) = Len(AllTasks(BoardBefore))

====
